---- MODULE Spec2Model ----
(***************************************************************************)
(* A model of the midgard block pipeline: chain.Client.Follow (the block   *)
(* source), event.Demux, the timeseries package (Setup, CommitBlock,       *)
(* LastBlock, the depth snapshot manager) and the database tables they     *)
(* write.                                                                  *)
(***************************************************************************)
EXTENDS Integers, Sequences, FiniteSets, TLC

(***************************************************************************)
(* Bounds of the model                                                     *)
(***************************************************************************)
\* greatest block height the node ever reports
MaxHeight == 2
\* greatest number of block metas in one BlockchainInfo response
MaxMetas == 2
\* greatest offset the caller passes to its first Follow call
MaxOffset == 2
\* greatest number of Follow calls one caller makes
MaxCalls == 2
\* greatest number of process starts after the first
MaxRestarts == 1
\* greatest number of Listener callbacks a caller of the package makes
MaxEvents == 2
\* greatest timestamp a caller of the package passes
MaxTime == 2
\* greatest number of CommitBlock calls a caller of the package makes
MaxCommits == 2
\* transactions in a block, and events in a transaction, handed to Demux alone
MaxTxs == 2
MaxTxEvents == 2
\* update calls a caller of the snapshot manager makes
MaxUpdates == 3
\* heights those update calls are made at: 1..MaxSnapHeight
MaxSnapHeight == 3

(***************************************************************************)
(* Program constants                                                       *)
(***************************************************************************)
\* batch := make([]Block, 20)
BatchSize == 20

VARIABLES
    \* ---- chain.Client.Follow: one call, and its caller ----
    fpc,          \* position of Follow: idle, status, loop, fetch, send, done
    callOffset,   \* the offset argument of the running (or last) call
    offset,       \* the offset variable of Follow
    latest,       \* status.SyncInfo.LatestBlockHeight
    batch,        \* batch[:n], the heights of the fetched blocks
    bi,           \* index of the next block of batch to submit (1-based)
    quit,         \* the quit channel has been signalled
    fret,         \* what Follow returned: [height, err]
    sent,         \* heights sent on out by the running (or last) call
    calls,        \* number of Follow calls made so far
    delivered,    \* heights received from out, over all calls of the process
    rpcs,         \* the RPC requests of the last step of Follow that made any
    \* ---- the database ----
    block_log,            \* height -> [timestamp, hash, agg_state] (height is the key)
    events,               \* rows of the event tables: <<block time, tx, event>>
    aggregate_states,     \* <<height, pool>> -> [asset_e8, rune_e8]
    aggregate_id_states,  \* <<height, pool_id>> -> [asset_e8, rune_e8]
    \* ---- the memory of the timeseries package ----
    lastBlockTrack,       \* the blockTrack last stored (Nil before the first Store)
    recorder,             \* running totals and queues of the recorder
    depthSnapshot,        \* the snapshotManager
    poolIdMapperr,        \* pool name -> id
    \* ---- the process that runs the pipeline ----
    ppc,          \* boot, ready, recv, demux, update, commit, exit
    cur,          \* height of the block in the pipeline
    feed,         \* the chain: height -> transactions, each a list of events
    restarts,     \* number of process starts after the first
    nEvents,      \* number of Listener callbacks made by a caller of the package
    nCommits,     \* number of CommitBlock calls made by a caller of the package
    cleanStops,   \* every process so far ended right after a CommitBlock that returned nil
    callbacks,    \* the Listener callbacks of the last Demux call: <<name, event>>
    ret,          \* the last call of the package and what it returned
    \* ---- what an observer of the package has seen ----
    dbexecs,      \* the DBExec calls of the last update: [table, rows, n]
    passed,       \* the update calls a caller of the package made: [proc, height, asset, rune, err]
    firstRun,     \* the block_log an earlier, independent run of the pipeline wrote
    \* ---- the memory behind the references a reader of lastBlockTrack gets ----
    heap,         \* address -> byte slice, map or blockTrack (with addresses for Hash and the maps)
    trackPtr,     \* the *blockTrack in lastBlockTrack (0 before the first Store)
    building,     \* the blockTrack of the CommitBlock call that is running (0 when none is)
    stored,       \* address of a stored blockTrack -> its value when it was stored
    reader,       \* a goroutine that calls LastBlock and AssetAndRuneDepths
    \* ---- timescale.Client: the pool cache and the goroutines that update it ----
    pools,        \* Client.pools: pool -> [assetDepth, runeDepth]
    mu,           \* Client.mu: 0 when free, else the goroutine that holds it
    writers,      \* goroutine -> its updatePoolCache call: position, arguments, locals, results
    poolLog,      \* the updatePoolCache calls that returned, in the order they returned
    \* ---- the read side: lookups of package timeseries and handlers of package api ----
    set_node_keys_events, \* rows of the table, in the order a query reads them
    apiCall,      \* the last lookup or handler call: arguments, queries made, results
    \* ---- the event store of package timescale ----
    eventRecords, \* the event records stored: [id, chain]
    storeCall,    \* the last call of the store and what it returned
    \* ---- one mapDiff ----
    snapCells,    \* the maps behind the two mapDiffs of depthSnapshot: [asset, rune], cells of heap
    md,           \* mapDiff.snapshot
    mdCall        \* the last save or diff call on it and what it returned

followVars == <<fpc, callOffset, offset, latest, batch, bi, quit, fret, sent, calls, delivered, rpcs>>
dbVars == <<block_log, events, aggregate_states, aggregate_id_states>>
memVars == <<lastBlockTrack, recorder, depthSnapshot, poolIdMapperr>>
procVars == <<ppc, cur, feed, restarts, nEvents, nCommits, cleanStops, callbacks, ret>>
obsVars == <<dbexecs, passed, firstRun>>
heapVars == <<heap, trackPtr, building, stored, reader>>
tsVars == <<dbVars, memVars, procVars, obsVars, heapVars>>
cacheVars == <<pools, mu, writers, poolLog>>
readVars == <<set_node_keys_events, apiCall>>
storeVars == <<eventRecords, storeCall>>
mdVars == <<snapCells, md, mdCall>>
apiVars == <<cacheVars, readVars, storeVars, mdVars>>

vars == <<followVars, tsVars, apiVars>>

\* line is the line of the return statement in chain.go
NoRet == [height |-> 0, err |-> "none", line |-> 0]

\* the process that runs Follow has not ended
Running == ppc # "exit"

(***************************************************************************)
(* The node: what its RPC endpoints may answer                             *)
(***************************************************************************)
\* Status: an error, or the latest block height
StatusResponses == {[err |-> TRUE, latest |-> 0]}
                   \cup {[err |-> FALSE, latest |-> l] : l \in 0..MaxHeight}

\* heights a block meta may carry when the request starts at off: in range,
\* just below the range, just above it
MetaHeights(off) == (0..MaxHeight) \cup {off + BatchSize}

SeqsUpTo(S, k) == UNION {[1..m -> S] : m \in 0..k}

\* BlockchainInfo(off, off+19): an error, or a list of block metas (heights)
InfoResponses(off) ==
    {[err |-> TRUE, metas |-> <<>>]}
    \cup {[err |-> FALSE, metas |-> ms] : ms \in SeqsUpTo(MetaHeights(off), MaxMetas)}

(***************************************************************************)
(* chain.Client.fetchBlocks                                                *)
(*   info   the BlockchainInfo response                                    *)
(*   fault  what goes wrong first after it: nothing, the BlockResults      *)
(*          enqueue of the k-th block fails, the batch trigger fails, or   *)
(*          the Results.Height of the k-th block is not the one requested  *)
(***************************************************************************)
FetchFaults ==
    {[kind |-> "none", at |-> 0], [kind |-> "trigger", at |-> 0]}
    \cup {[kind |-> "enqueue", at |-> k] : k \in 1..MaxMetas}
    \cup {[kind |-> "mismatch", at |-> k] : k \in 1..MaxMetas}

\* mutant: the batch is filled from the first meta to the last
Reverse_FirstToLast(s) == s

Reverse(s) == [k \in 1..Len(s) |-> s[Len(s) + 1 - k]]

\* mutant: last := offset + int64(len(batch))
Last_OffByOne(off) == off + BatchSize

\* last := offset + int64(len(batch)-1)
Last(off) == off + (BatchSize - 1)

\* validate descending [!] order
OrderFails(metas) == \E i \in 2..Len(metas) : metas[i] >= metas[i-1]

\* mutant: only the high end of the range is validated
RangeFails_HighOnly(off, metas) == metas[1] > Last(off)

\* validate range: high > last || low < offset
RangeFails(off, metas) == metas[1] > Last(off) \/ metas[Len(metas)] < off

fetchBlocks(off, info, fault) ==
    LET metas == info.metas
        m     == Len(metas)
        fail(e) == [n |-> 0, err |-> e, batch |-> <<>>]
    IN  IF info.err THEN fail("info")
        ELSE IF m = 0 THEN [n |-> 0, err |-> "nil", batch |-> <<>>]
        ELSE IF OrderFails(metas) THEN fail("order")
        ELSE IF RangeFails(off, metas) THEN fail("range")
        ELSE IF fault.kind = "enqueue" /\ fault.at \in 1..m THEN fail("enqueue")
        ELSE IF fault.kind = "trigger" THEN fail("trigger")
        ELSE IF fault.kind = "mismatch" /\ fault.at \in 1..m THEN fail("mismatch")
        ELSE [n |-> m, err |-> "nil", batch |-> Reverse(metas)]

\* mutant: an enqueue error is returned only after the batch was triggered
Requests_TriggerAfterError(off, info, fault) ==
    LET r      == fetchBlocks(off, info, fault)
        asked  == <<"BlockchainInfo", off, Last(off)>>
        hs     == Reverse(info.metas)
    IN  IF info.err \/ r.err \in {"order", "range"} \/ Len(hs) = 0 THEN <<asked>>
        ELSE <<asked>> \o [i \in 1..Len(hs) |-> <<"BlockResults", hs[i]>>]
             \o << <<"Trigger", Len(hs)>> >>

\* the RPC requests fetchBlocks makes, in order: <<"BlockchainInfo", min, max>>,
\* <<"BlockResults", height>> per block enqueued, <<"Trigger", number enqueued>>
Requests(off, info, fault) ==
    LET r      == fetchBlocks(off, info, fault)
        asked  == <<"BlockchainInfo", off, Last(off)>>
        hs     == Reverse(info.metas)
        k      == IF r.err = "enqueue" THEN fault.at ELSE Len(hs)
    IN  IF info.err \/ r.err \in {"order", "range"} \/ Len(hs) = 0 THEN <<asked>>
        ELSE <<asked>> \o [i \in 1..k |-> <<"BlockResults", hs[i]>>]
             \o (IF r.err = "enqueue" THEN <<>> ELSE << <<"Trigger", Len(hs)>> >>)

(***************************************************************************)
(* chain.Client.Follow                                                     *)
(***************************************************************************)
Return(h, e, line) ==
    /\ fret' = [height |-> h, err |-> e, line |-> line]
    /\ fpc' = "done"

\* mutant: offset = batch[i].Height
NextOffset_Same(h) == h

\* offset = batch[i].Height + 1
NextOffset(h) == h + 1

\* mutant: the select on no data has no quit case
NoDataQuit_Never(q) == FALSE

\* select { default: continue; case <-quit: return }: the quit case is taken
NoDataQuit(q) == q

\* the call itself: Follow(out, o, quit)
FollowCall(o) ==
    /\ fpc \in {"idle", "done"}
    /\ fpc' = "status"
    /\ callOffset' = o
    /\ offset' = o
    /\ sent' = <<>>
    /\ fret' = NoRet
    /\ batch' = <<>>
    /\ bi' = 1
    /\ calls' = calls + 1
    /\ rpcs' = <<>>
    /\ UNCHANGED <<latest, quit, delivered>>

\* status, err := c.statusClient.Status()
FollowStatus ==
    /\ Running
    /\ fpc = "status"
    /\ \E r \in StatusResponses :
         IF r.err
         THEN /\ Return(offset, "status", 87)
              /\ UNCHANGED latest
         ELSE /\ latest' = r.latest
              /\ fpc' = "loop"
              /\ UNCHANGED fret
    /\ rpcs' = << <<"Status">> >>
    /\ UNCHANGED <<callOffset, offset, batch, bi, quit, sent, calls, delivered>>
    /\ UNCHANGED <<tsVars, apiVars>>

\* loop head with offset > LatestBlockHeight: poll the status again
FollowPoll ==
    /\ Running
    /\ fpc = "loop"
    /\ offset > latest
    /\ \E r \in StatusResponses :
         IF r.err
         THEN /\ Return(offset, "status", 111)
              /\ UNCHANGED latest
         ELSE /\ latest' = r.latest
              /\ IF offset > r.latest
                 THEN Return(offset, "ErrNoData", 116)
                 ELSE /\ fpc' = "fetch"
                      /\ UNCHANGED fret
    /\ rpcs' = << <<"Status">> >>
    /\ UNCHANGED <<callOffset, offset, batch, bi, quit, sent, calls, delivered>>
    /\ UNCHANGED <<tsVars, apiVars>>

\* loop head with offset <= LatestBlockHeight: no poll
FollowLoop ==
    /\ Running
    /\ fpc = "loop"
    /\ offset <= latest
    /\ fpc' = "fetch"
    /\ UNCHANGED <<callOffset, offset, latest, batch, bi, quit, fret, sent, calls, delivered, rpcs>>
    /\ UNCHANGED <<tsVars, apiVars>>

\* n, err := c.fetchBlocks(batch, offset), and the select taken when n = 0,
\* against a node that answers BlockchainInfo with one of responses
Fetch(responses) ==
    /\ Running
    /\ fpc = "fetch"
    /\ \E info \in responses, fault \in FetchFaults :
         LET r == fetchBlocks(offset, info, fault)
         IN  \* a fault occurs only at a call that is made
             /\ fault.kind # "none" => r.err = fault.kind
             /\ rpcs' = Requests(offset, info, fault)
             /\ IF r.err # "nil"
                THEN /\ Return(offset, r.err, 122)
                     /\ UNCHANGED <<batch, bi>>
                ELSE IF r.n = 0
                THEN \* select { default: continue; case <-quit: return }
                     /\ IF NoDataQuit(quit)
                        THEN Return(offset, "ErrNoData", 130)
                        ELSE /\ fpc' = "loop"
                             /\ UNCHANGED fret
                     /\ UNCHANGED <<batch, bi>>
                ELSE /\ batch' = r.batch
                     /\ bi' = 1
                     /\ fpc' = "send"
                     /\ UNCHANGED fret
    /\ UNCHANGED <<callOffset, offset, latest, quit, sent, calls, delivered>>
    /\ UNCHANGED <<tsVars, apiVars>>

FollowFetch == Fetch(InfoResponses(offset))

\* case out <- batch[i]: the receiver takes the block
FollowSend ==
    /\ fpc = "send"
    /\ sent' = Append(sent, batch[bi])
    /\ delivered' = Append(delivered, batch[bi])
    /\ offset' = NextOffset(batch[bi])
    /\ IF bi = Len(batch)
       THEN /\ fpc' = "loop"
            /\ bi' = 1
       ELSE /\ bi' = bi + 1
            /\ UNCHANGED fpc
    /\ UNCHANGED <<callOffset, latest, batch, quit, fret, calls, rpcs>>

\* case <-quit: in the submit loop
FollowQuit ==
    /\ Running
    /\ fpc = "send"
    /\ quit
    /\ Return(offset, "nil", 138)
    /\ UNCHANGED <<callOffset, offset, latest, batch, bi, quit, sent, calls, delivered, rpcs>>
    /\ UNCHANGED <<tsVars, apiVars>>

\* the caller signals quit
SignalQuit ==
    /\ Running
    /\ ~quit
    /\ quit' = TRUE
    /\ UNCHANGED <<fpc, callOffset, offset, latest, batch, bi, fret, sent, calls, delivered, rpcs>>
    /\ UNCHANGED <<tsVars, apiVars>>



(***************************************************************************)
(* Values of the timeseries package                                        *)
(***************************************************************************)
Pools == {"P1", "P2"}
Hashes == {"a", "b"}

\* map[string]int64 as a function on the pools that have an entry
EmptyMap == [p \in {} |-> 0]
Get(m, p) == IF p \in DOMAIN m THEN m[p] ELSE 0
Put(m, p, v) == [q \in DOMAIN m \cup {p} |-> IF q = p THEN v ELSE m[q]]

Max(S) == CHOOSE x \in S : \A y \in S : y <= x
Min(S) == CHOOSE x \in S : \A y \in S : x <= y

\* gob encoding of aggTrack. A map is written entry by entry in the order
\* Go's map iteration yields, which differs from run to run: the encodings of
\* a map are the orderings of its entries.
Entries(m) == {<<p, m[p]>> : p \in DOMAIN m}
Orderings(S) ==
    {s \in [1..Cardinality(S) -> S] : \A x \in S : \E i \in 1..Cardinality(S) : s[i] = x}
Encodings(asset, rune) ==
    {[ok |-> TRUE, asset |-> a, rune |-> r] :
        a \in Orderings(Entries(asset)), r \in Orderings(Entries(rune))}
\* what the buffer holds when Encode failed: not a decodable aggTrack
Malformed == [ok |-> FALSE, asset |-> <<>>, rune |-> <<>>]

DecodeMap(s) ==
    [p \in {s[i][1] : i \in 1..Len(s)} |->
        LET i == CHOOSE j \in 1..Len(s) : s[j][1] = p IN s[i][2]]
\* gob.NewDecoder(...).Decode(&track.aggTrack)
Decode(serial) ==
    IF serial.ok
    THEN [err |-> FALSE, asset |-> DecodeMap(serial.asset), rune |-> DecodeMap(serial.rune)]
    ELSE [err |-> TRUE, asset |-> EmptyMap, rune |-> EmptyMap]

\* the zero blockTrack (var track blockTrack)
ZeroTrack ==
    [Height |-> 0, Timestamp |-> 0, Hash |-> "",
     AssetE8DepthPerPool |-> EmptyMap, RuneE8DepthPerPool |-> EmptyMap]
\* lastBlockTrack before the first Store
Nil == [Height |-> -1, Timestamp |-> 0, Hash |-> "",
        AssetE8DepthPerPool |-> EmptyMap, RuneE8DepthPerPool |-> EmptyMap]

(***************************************************************************)
(* The recorder: the Listener behind Demux, its running totals and its     *)
(* queues of events that wait for a follow-up                              *)
(***************************************************************************)
\* OutboundTimeout = time.Hour; block time is counted in hours
OutboundTimeout == 1

EmptyRecorder ==
    [assetE8DepthPerPool |-> EmptyMap, runeE8DepthPerPool |-> EmptyMap,
     outboundQ |-> <<>>, feeQ |-> <<>>]

AddDepths(r, pool, assetE8, runeE8) ==
    [r EXCEPT !.assetE8DepthPerPool = Put(@, pool, Get(@, pool) + assetE8),
              !.runeE8DepthPerPool  = Put(@, pool, Get(@, pool) + runeE8)]

RemoveAt(s, i) == [k \in 1..(Len(s) - 1) |-> IF k < i THEN s[k] ELSE s[k + 1]]
Matches(q, tx) == {i \in 1..Len(q) : q[i].tx = tx}

OnStake(r, e, t) == AddDepths(r, e.pool, e.asset, e.rune)
OnAdd(r, e, t) == AddDepths(r, e.pool, e.asset, e.rune)
OnUnstake(r, e, t) ==
    [r EXCEPT !.outboundQ =
        Append(@, [tx |-> e.tx, pool |-> e.pool, asset |-> e.asset, rune |-> e.rune, time |-> t])]
OnOutbound(r, e, t) ==
    IF Matches(r.outboundQ, e.tx) = {} THEN r
    ELSE LET i == Min(Matches(r.outboundQ, e.tx))
             o == r.outboundQ[i]
         IN  [AddDepths(r, o.pool, 0 - o.asset, 0 - o.rune)
                 EXCEPT !.outboundQ = RemoveAt(r.outboundQ, i)]
OnSwap(r, e, t) ==
    [AddDepths(r, e.pool, e.asset, e.rune)
        EXCEPT !.feeQ = Append(r.feeQ, [tx |-> e.tx, pool |-> e.pool, asset |-> 0, rune |-> 0, time |-> t])]
OnFee(r, e, t) ==
    LET d == AddDepths(r, e.pool, 0, 0 - e.rune)
    IN  IF Matches(r.feeQ, e.tx) = {} THEN d
        ELSE [d EXCEPT !.feeQ = RemoveAt(r.feeQ, Min(Matches(r.feeQ, e.tx)))]
OnMessage(r, e, t) == r
OnPool(r, e, t) == r
OnRefund(r, e, t) == r
OnReserve(r, e, t) == r

Unexpired(q, timestamp) ==
    SelectSeq(q, LAMBDA o : timestamp - o.time <= OutboundTimeout)
\* drop the entries whose follow-up did not come within OutboundTimeout
ApplyOutboundQ(r, height, timestamp) ==
    [r EXCEPT !.outboundQ = Unexpired(@, timestamp)]
ApplyFeeQ(r, height, timestamp) ==
    [r EXCEPT !.feeQ = Unexpired(@, timestamp)]

(***************************************************************************)
(* event.Demux                                                             *)
(* An event is [type, ok, pool, tx, asset, rune]; ok says whether          *)
(* LoadTendermint decodes its attributes.                                  *)
(***************************************************************************)
KnownTypes == {"add", "fee", "message", "outbound", "pool", "refund",
               "reserve", "stake", "swap", "unstake"}

\* Demux.event: the error it returns ("nil": the callback was made)
eventErr(e) ==
    IF e.type \notin KnownTypes THEN "errEventType"
    ELSE IF ~e.ok THEN "decode"
    ELSE "nil"

\* mutant: the refund case calls OnReserve
callbackOf_RefundAsReserve(e) ==
    CASE e.type = "add"      -> "OnAdd"
      [] e.type = "fee"      -> "OnFee"
      [] e.type = "message"  -> "OnMessage"
      [] e.type = "outbound" -> "OnOutbound"
      [] e.type = "pool"     -> "OnPool"
      [] e.type = "refund"   -> "OnReserve"
      [] e.type = "reserve"  -> "OnReserve"
      [] e.type = "stake"    -> "OnStake"
      [] e.type = "swap"     -> "OnSwap"
      [] e.type = "unstake"  -> "OnUnstake"

\* Demux.event: the Listener method the switch selects
callbackOf(e) ==
    CASE e.type = "add"      -> "OnAdd"
      [] e.type = "fee"      -> "OnFee"
      [] e.type = "message"  -> "OnMessage"
      [] e.type = "outbound" -> "OnOutbound"
      [] e.type = "pool"     -> "OnPool"
      [] e.type = "refund"   -> "OnRefund"
      [] e.type = "reserve"  -> "OnReserve"
      [] e.type = "stake"    -> "OnStake"
      [] e.type = "swap"     -> "OnSwap"
      [] e.type = "unstake"  -> "OnUnstake"

\* the Listener interface with the recorder behind it
Listen(name, r, e, t) ==
    CASE name = "OnAdd"      -> OnAdd(r, e, t)
      [] name = "OnFee"      -> OnFee(r, e, t)
      [] name = "OnMessage"  -> OnMessage(r, e, t)
      [] name = "OnOutbound" -> OnOutbound(r, e, t)
      [] name = "OnPool"     -> OnPool(r, e, t)
      [] name = "OnRefund"   -> OnRefund(r, e, t)
      [] name = "OnReserve"  -> OnReserve(r, e, t)
      [] name = "OnStake"    -> OnStake(r, e, t)
      [] name = "OnSwap"     -> OnSwap(r, e, t)
      [] name = "OnUnstake"  -> OnUnstake(r, e, t)

\* Demux.event: the callback made on the recorder
Callback(r, e, t) == Listen(callbackOf(e), r, e, t)

\* a Listener: the recorder and the callbacks made on it so far
Listener(r) == [rec |-> r, log |-> <<>>]

\* Demux.event on the Listener l
event(l, e, t) ==
    IF eventErr(e) = "nil"
    THEN [rec |-> Callback(l.rec, e, t), log |-> Append(l.log, <<callbackOf(e), e>>)]
    ELSE l

\* all events of a block in transaction order, then event order, each with
\* its indices: <<txIndex, eventIndex, event>>
RECURSIVE Flatten(_, _)
Flatten(txs, txIndex) ==
    IF txIndex > Len(txs) THEN <<>>
    ELSE [k \in 1..Len(txs[txIndex]) |-> <<txIndex, k, txs[txIndex][k]>>]
         \o Flatten(txs, txIndex + 1)

\* mutant: the first event that fails ends the block
RECURSIVE Dispatch_StopAtError(_, _, _, _)
Dispatch_StopAtError(r, evs, k, t) ==
    IF k > Len(evs) \/ eventErr(evs[k][3]) # "nil" THEN r
    ELSE Dispatch_StopAtError(event(r, evs[k][3], t), evs, k + 1, t)

\* Demux.Block: the two loops, over the events in block order from the k-th
RECURSIVE Dispatch(_, _, _, _)
Dispatch(r, evs, k, t) ==
    IF k > Len(evs) THEN r
    ELSE Dispatch(event(r, evs[k][3], t), evs, k + 1, t)

\* Demux.Block: the Listener after every event of the block went through
\* Demux.event
Block(r, txs, t) == Dispatch(Listener(r), Flatten(txs, 1), 1, t)

\* the event rows the callbacks of a block insert: <<block time, tx, event>>
BlockRows(txs, t) ==
    {<<t, x[1], x[2]>> : x \in {y \in {Flatten(txs, 1)[i] : i \in 1..Len(Flatten(txs, 1))} : eventErr(y[3]) = "nil"}}

(***************************************************************************)
(* timeseries: loadBlockFromDB, Setup, CommitBlock, LastBlock              *)
(***************************************************************************)
\* faults of the database client: of DBQuery, of rows.Scan, of rows.Err
QueryFaults == {"none", "query", "scan", "rows"}
\* faults of DBExec and of result.RowsAffected
ExecFaults == {"none", "exec", "rows"}

\* mutant: ORDER BY height ASC LIMIT 1
SelectRows_Ascending(height, log) ==
    IF 0 < height THEN DOMAIN log \cap {height}
    ELSE IF DOMAIN log = {} THEN {}
    ELSE {Min(DOMAIN log)}

\* ORDER BY height DESC LIMIT 1, or WHERE height = %d when 0 < height
SelectRows(height, log) ==
    IF 0 < height THEN DOMAIN log \cap {height}
    ELSE IF DOMAIN log = {} THEN {}
    ELSE {Max(DOMAIN log)}

\* mutant: no row is an error (sql.ErrNoRows)
NoRows_Error(fault) == [err |-> "rows", track |-> Nil]

\* rows.Next() is false: the zero track, unless rows.Err() is set
NoRows(fault) ==
    IF fault = "rows" THEN [err |-> "rows", track |-> Nil]
    ELSE [err |-> "nil", track |-> ZeroTrack]

\* mutant: the Decode error is logged and not returned
DecodeFails_Swallowed(d) == FALSE

\* if err := ...Decode(&track.aggTrack); err != nil
DecodeFails(d) == d.err

loadBlockFromDB(height, log, fault) ==
    LET sel == SelectRows(height, log)
        fail(e) == [err |-> e, track |-> Nil]
    IN  IF fault = "query" THEN fail("lookup")
        ELSE IF sel = {} THEN NoRows(fault)
        ELSE LET h   == CHOOSE x \in sel : TRUE
                 \* a failed Scan is not checked: aggSerial stays empty
                 d   == Decode(IF fault = "scan" THEN Malformed ELSE log[h].agg_state)
             IN  IF DecodeFails(d) THEN fail("malformed")
                 ELSE IF fault = "rows" THEN fail("rows")
                 ELSE [err |-> "nil",
                       track |-> [Height |-> h, Timestamp |-> log[h].timestamp,
                                  Hash |-> log[h].hash,
                                  AssetE8DepthPerPool |-> d.asset,
                                  RuneE8DepthPerPool |-> d.rune]]

\* for pool, E8 := range track...: recorder...[pool] = &v
Restore(m, t) == [p \in DOMAIN m \cup DOMAIN t |-> IF p \in DOMAIN t THEN t[p] ELSE m[p]]

Call(op, err, height, timestamp, hash, fault, n) ==
    [op |-> op, err |-> err, height |-> height, timestamp |-> timestamp,
     hash |-> hash, fault |-> fault, n |-> n]
NoCall == Call("none", "nil", 0, 0, "", "none", 0)

\* Setup: whether the loaded track is stored and applied
SetupProceeds(r) == r.err = "nil"

\* a fault occurs only at a call that is made: Scan when there is a row,
\* rows.Err when the row was decoded
FaultOccurs(log, fault) ==
    \/ fault \in {"none", "query"}
    \/ fault = "scan" /\ SelectRows(-1, log) # {}
    \/ fault = "rows" /\ (IF SelectRows(-1, log) = {} THEN TRUE
                          ELSE log[Max(DOMAIN log)].agg_state.ok)

Setup(fault) ==
    LET r == loadBlockFromDB(-1, block_log, fault)
    IN  /\ FaultOccurs(block_log, fault)
        /\ IF SetupProceeds(r)
           THEN /\ lastBlockTrack' = r.track
                /\ recorder' =
                     [recorder EXCEPT
                        !.assetE8DepthPerPool = Restore(@, r.track.AssetE8DepthPerPool),
                        !.runeE8DepthPerPool  = Restore(@, r.track.RuneE8DepthPerPool)]
                /\ ret' = Call("Setup", r.err, r.track.Height, r.track.Timestamp,
                               r.track.Hash, fault, 0)
           ELSE /\ ret' = Call("Setup", r.err, 0, 0, "", fault, 0)
                /\ UNCHANGED <<lastBlockTrack, recorder>>

\* mutant: ON CONFLICT (height) DO UPDATE
InsertBlockLog_Upsert(log, height, row) ==
    [h \in DOMAIN log \cup {height} |-> IF h = height THEN row ELSE log[h]]

\* INSERT INTO block_log ... ON CONFLICT DO NOTHING: the table afterwards
InsertBlockLog(log, height, row) ==
    IF height \in DOMAIN log THEN log
    ELSE [h \in DOMAIN log \cup {height} |-> IF h = height THEN row ELSE log[h]]

\* mutant: the DBExec error is logged and not returned
CommitErr_ExecSwallowed(fault) ==
    IF fault = "rows" THEN "result" ELSE "nil"

\* CommitBlock: the error it returns for a fault of the database client
CommitErr(fault) ==
    IF fault = "exec" THEN "persist"
    ELSE IF fault = "rows" THEN "result"
    ELSE "nil"

\* serial: the bytes Encode wrote when it succeeded (encOk)
CommitBlock(height, timestamp, hash, fault, encOk, serial) ==
    LET track == [Height |-> height, Timestamp |-> timestamp, Hash |-> hash,
                  AssetE8DepthPerPool |-> recorder.assetE8DepthPerPool,
                  RuneE8DepthPerPool |-> recorder.runeE8DepthPerPool]
        \* a failed Encode is logged and the insert goes on
        aggSerial == IF encOk THEN serial ELSE Malformed
        row == [timestamp |-> timestamp, hash |-> hash, agg_state |-> aggSerial]
        log == IF fault = "exec" THEN block_log ELSE InsertBlockLog(block_log, height, row)
        n   == Cardinality(DOMAIN log) - Cardinality(DOMAIN block_log)
        err == CommitErr(fault)
    IN  /\ serial \in Encodings(track.AssetE8DepthPerPool, track.RuneE8DepthPerPool)
        /\ block_log' = log
        /\ ret' = Call("CommitBlock", err, height, 0, "", fault, n)
        /\ IF err # "nil"
           THEN UNCHANGED <<lastBlockTrack, recorder>>
           ELSE /\ recorder' = ApplyFeeQ(ApplyOutboundQ(recorder, height, timestamp),
                                         height, timestamp)
                /\ lastBlockTrack' = track

\* LastBlock(): height, timestamp and hash of the track last stored
LastBlock == [height |-> lastBlockTrack.Height, timestamp |-> lastBlockTrack.Timestamp,
              hash |-> lastBlockTrack.Hash]

(***************************************************************************)
(* timeseries: the depth snapshot manager                                  *)
(***************************************************************************)
EmptySnapshot ==
    [assetE8DepthSnapshot |-> EmptyMap, runeE8DepthSnapshot |-> EmptyMap,
     snapshotHeight |-> 0]

\* mutant: the entries of the old snapshot are kept
save_NoReset(snapshot, newMap) ==
    [k \in DOMAIN snapshot \cup DOMAIN newMap |->
        IF k \in DOMAIN newMap THEN newMap[k] ELSE snapshot[k]]

\* mapDiff.save: the snapshot afterwards, an empty map filled from newMap
save(snapshot, newMap) == [k \in DOMAIN newMap |-> newMap[k]]

diffAtKey(snapshot, pool, newMap) ==
    IF pool \in DOMAIN newMap
    THEN [hasDiff |-> pool \notin DOMAIN snapshot \/ snapshot[pool] # newMap[pool],
          newValue |-> newMap[pool]]
    ELSE [hasDiff |-> pool \in DOMAIN snapshot, newValue |-> 0]

\* mutant: only the asset side decides
RowNeeded_AssetOnly(assetDiff, runeDiff) == assetDiff

\* if assetDiff || runeDiff
RowNeeded(assetDiff, runeDiff) == assetDiff \/ runeDiff

\* the rows update emits: pool -> [asset_e8, rune_e8]
UpdateRows(sm, assetE8DepthPerPool, runeE8DepthPerPool) ==
    LET poolNames == DOMAIN assetE8DepthPerPool \cup DOMAIN runeE8DepthPerPool
                     \cup DOMAIN sm.assetE8DepthSnapshot \cup DOMAIN sm.runeE8DepthSnapshot
        a(pool) == diffAtKey(sm.assetE8DepthSnapshot, pool, assetE8DepthPerPool)
        r(pool) == diffAtKey(sm.runeE8DepthSnapshot, pool, runeE8DepthPerPool)
        changed == {pool \in poolNames : RowNeeded(a(pool).hasDiff, r(pool).hasDiff)}
    IN  [pool \in changed |-> [asset_e8 |-> a(pool).newValue, rune_e8 |-> r(pool).newValue]]

\* poolIdMap.getId for every pool of ps, in the order idOrder
RECURSIVE getIds(_, _, _)
getIds(pim, idOrder, k) ==
    IF k > Len(idOrder) THEN pim
    ELSE getIds(IF idOrder[k] \in DOMAIN pim THEN pim
                ELSE Put(pim, idOrder[k], Cardinality(DOMAIN pim)), idOrder, k + 1)

\* INSERT ... ON CONFLICT DO NOTHING of rows (key -> values) into a table
InsertRows(table, rows) ==
    [k \in DOMAIN table \cup DOMAIN rows |-> IF k \in DOMAIN table THEN table[k] ELSE rows[k]]
RowsAffected(table, rows) == Cardinality(DOMAIN rows \ DOMAIN table)

UpdateFaults == {"none", "exec", "rows", "exec2", "rows2"}

\* if n != int64(diffNum), after the insert into aggregate_states
CountFails(n, diffNum) == n # diffNum

\* mutant: a wrong count of the second insert is logged and not returned
CountFails2_LoggedOnly(n, diffNum) == FALSE

\* if n != int64(diffNum), after the insert into aggregate_id_states
CountFails2(n, diffNum) == n # diffNum

\* one DBExec call: the table, the rows of the query, the count the
\* database reports (-1 when the call or RowsAffected failed)
Exec(table, rows, n) == [table |-> table, rows |-> rows, n |-> n]

\* snapshotManager.update; idOrder is the order in which the loop over
\* poolNames met the pools it emits a row for
update(height, assetE8DepthPerPool, runeE8DepthPerPool, fault, idOrder) ==
    LET emitted == UpdateRows(depthSnapshot, assetE8DepthPerPool, runeE8DepthPerPool)
        diffNum == Cardinality(DOMAIN emitted)
        pim   == getIds(poolIdMapperr, idOrder, 1)
        rows  == [k \in {<<height, pool>> : pool \in DOMAIN emitted} |-> emitted[k[2]]]
        rows2 == [k \in {<<height, pim[pool]>> : pool \in DOMAIN emitted} |->
                    LET pool == CHOOSE q \in DOMAIN emitted : pim[q] = k[2] IN emitted[pool]]
        n1 == RowsAffected(aggregate_states, rows)
        n2 == RowsAffected(aggregate_id_states, rows2)
        err == IF diffNum = 0 THEN "nil"
               ELSE IF fault = "exec" THEN "saving"
               ELSE IF fault = "rows" THEN "results"
               ELSE IF CountFails(n1, diffNum) THEN "count"
               ELSE IF fault = "exec2" THEN "saving2"
               ELSE IF fault = "rows2" THEN "results2"
               ELSE IF CountFails2(n2, diffNum) THEN "count2"
               ELSE "nil"
        exec1 == Exec("aggregate_states", rows,
                      IF fault \in {"exec", "rows"} THEN -1 ELSE n1)
        exec2 == Exec("aggregate_id_states", rows2,
                      IF fault \in {"exec2", "rows2"} THEN -1 ELSE n2)
    IN  /\ idOrder \in Orderings(DOMAIN emitted)
        \* a fault occurs only at a call that is made
        /\ fault # "none" => diffNum # 0
        /\ fault \in {"exec2", "rows2"} => n1 = diffNum
        /\ depthSnapshot' =
             [assetE8DepthSnapshot |-> save(depthSnapshot.assetE8DepthSnapshot, assetE8DepthPerPool),
              runeE8DepthSnapshot |-> save(depthSnapshot.runeE8DepthSnapshot, runeE8DepthPerPool),
              snapshotHeight |-> height]
        /\ poolIdMapperr' = pim
        /\ aggregate_states' =
             IF diffNum = 0 \/ fault = "exec" THEN aggregate_states
             ELSE InsertRows(aggregate_states, rows)
        /\ aggregate_id_states' =
             IF err \in {"nil", "results2", "count2"} /\ diffNum # 0
             THEN InsertRows(aggregate_id_states, rows2)
             ELSE aggregate_id_states
        /\ dbexecs' =
             IF diffNum = 0 THEN <<>>
             ELSE IF err \in {"saving", "results", "count"} THEN <<exec1>>
             ELSE <<exec1, exec2>>
        /\ ret' = Call("update", err, height, 0, "", fault, n1)

(***************************************************************************)
(* timeseries: the references behind lastBlockTrack                        *)
(* A slice, a map and a blockTrack live at an address; a blockTrack holds  *)
(* the addresses of its Hash and of its two maps.                          *)
(***************************************************************************)
\* the address of the hash slice the caller of CommitBlock owns and reuses
CallerBuf == 1

NoRead == [call |-> "none", ptr |-> 0, height |-> 0, timestamp |-> 0, refs |-> <<>>, seen |-> <<>>]

InitHeap ==
    /\ heap = <<"a">>
    /\ trackPtr = 0
    /\ building = 0
    /\ stored = EmptyMap
    /\ reader = [pc |-> "idle", ptr |-> 0, got |-> NoRead]

\* mutant: Hash: hash, the slice of the caller
HashCell_Alias(buf, fresh) == buf

\* Hash: make([]byte, len(hash)) and copy(track.Hash, hash): a new slice
HashCell(buf, fresh) == fresh

\* the heap after a blockTrack was built: a slice with the bytes of hash,
\* two maps that nothing else refers to, and the blockTrack as the last
\* cell, its Hash at hashAddr
NewTrack(h, height, timestamp, hashAddr, hash, asset, rune) ==
    h \o <<hash, asset, rune,
           [Height |-> height, Timestamp |-> timestamp, Hash |-> hashAddr,
            Asset |-> Len(h) + 2, Rune |-> Len(h) + 3]>>

\* recorder.AssetE8DepthPerPool() and recorder.RuneE8DepthPerPool(): a new
\* map[string]int64 with the values behind the recorder's map[string]*int64
AssetE8DepthPerPool(r) == [p \in DOMAIN r.assetE8DepthPerPool |-> r.assetE8DepthPerPool[p]]
RuneE8DepthPerPool(r) == [p \in DOMAIN r.runeE8DepthPerPool |-> r.runeE8DepthPerPool[p]]

\* the value of the blockTrack at an address
Deref(h, a) ==
    [Height |-> h[a].Height, Timestamp |-> h[a].Timestamp, Hash |-> h[h[a].Hash],
     AssetE8DepthPerPool |-> h[h[a].Asset], RuneE8DepthPerPool |-> h[h[a].Rune]]

\* lastBlockTrack.Store(p)
Store(p) ==
    /\ trackPtr' = p
    /\ stored' = [a \in DOMAIN stored \cup {p} |->
                    IF a = p THEN Deref(heap', p) ELSE stored[a]]

(***************************************************************************)
(* The chain, and the process that runs the pipeline                       *)
(***************************************************************************)
Ev(type, ok, pool, tx, asset, rune) ==
    [type |-> type, ok |-> ok, pool |-> pool, tx |-> tx, asset |-> asset, rune |-> rune]

\* the events callers hand to the recorder
EventSet ==
    {Ev("stake", TRUE, "P1", "t0", 2, 2),
     Ev("stake", TRUE, "P2", "t0", 1, 0),
     Ev("unstake", TRUE, "P1", "t1", 1, 1),
     Ev("outbound", TRUE, "P1", "t1", 0, 0)}

\* the blocks a chain is made of: lists of transactions
BlockSet ==
    {<< <<Ev("stake", TRUE, "P1", "t0", 2, 2)>> >>,
     << <<Ev("stake", TRUE, "P1", "t0", 2, 2)>>, <<Ev("unstake", TRUE, "P1", "t1", 1, 1)>> >>,
     << <<Ev("outbound", TRUE, "P1", "t1", 0, 0)>> >>,
     << <<Ev("message", TRUE, "", "", 0, 0), Ev("stake", FALSE, "P1", "t2", 0, 0)>>,
        <<Ev("bond", TRUE, "", "", 0, 0), Ev("stake", TRUE, "P2", "t3", 1, 0),
          Ev("stake", TRUE, "P1", "t3", 2, 2)>> >>}

Feeds == [1..MaxHeight -> BlockSet]
BlockTime(h) == h
BlockHash(h) == IF h % 2 = 1 THEN "a" ELSE "b"

FreshFollow ==
    /\ fpc' = "idle"
    /\ callOffset' = 0
    /\ offset' = 0
    /\ latest' = 0
    /\ batch' = <<>>
    /\ bi' = 1
    /\ quit' = FALSE
    /\ fret' = NoRet
    /\ sent' = <<>>
    /\ calls' = 0
    /\ delivered' = <<>>
    /\ rpcs' = <<>>

\* no earlier run
NoRun == [done |-> FALSE, log |-> EmptyMap]

\* a new process: nothing in memory, the database as it was left
FreshMemory ==
    /\ lastBlockTrack' = Nil
    /\ recorder' = EmptyRecorder
    /\ depthSnapshot' = EmptySnapshot
    /\ poolIdMapperr' = EmptyMap
    /\ ppc' = "boot"
    /\ cur' = 0
    /\ callbacks' = <<>>
    /\ ret' = NoCall
    /\ dbexecs' = <<>>

\* no call yet
NoApiCall == [fn |-> "none", args |-> <<>>, err |-> "nil", queries |-> <<>>, val |-> <<>>]
NoStoreCall == [op |-> "none", chain |-> "", err |-> "nil", maxID |-> 0]
NoMdCall == [op |-> "none", newMap |-> EmptyMap, val |-> EmptyMap]

\* the maps of depthSnapshot are not followed
NoCells == [asset |-> 0, rune |-> 0]

\* the state of the packages api and timescale before their first call
InitApiVars ==
    /\ pools = EmptyMap
    /\ mu = 0
    /\ writers = <<>>
    /\ poolLog = <<>>
    /\ set_node_keys_events = <<>>
    /\ apiCall = NoApiCall
    /\ eventRecords = {}
    /\ storeCall = NoStoreCall
    /\ snapCells = NoCells
    /\ md = EmptyMap
    /\ mdCall = NoMdCall

InitFollowVars ==
    /\ fpc = "idle"
    /\ callOffset = 0
    /\ offset = 0
    /\ latest = 0
    /\ batch = <<>>
    /\ bi = 1
    /\ quit = FALSE
    /\ fret = NoRet
    /\ sent = <<>>
    /\ calls = 0
    /\ delivered = <<>>
    /\ rpcs = <<>>

InitTimeseries ==
    /\ block_log = EmptyMap
    /\ events = {}
    /\ aggregate_states = EmptyMap
    /\ aggregate_id_states = EmptyMap
    /\ lastBlockTrack = Nil
    /\ recorder = EmptyRecorder
    /\ depthSnapshot = EmptySnapshot
    /\ poolIdMapperr = EmptyMap
    /\ ppc = "boot"
    /\ cur = 0
    /\ restarts = 0
    /\ nEvents = 0
    /\ nCommits = 0
    /\ cleanStops = TRUE
    /\ callbacks = <<>>
    /\ ret = NoCall
    /\ dbexecs = <<>>
    /\ passed = <<>>
    /\ firstRun = NoRun
    /\ InitHeap

(***************************************************************************)
(* Follow with a caller that starts it at an offset of its choice and      *)
(* restarts it at the height it returned, and a receiver on out            *)
(***************************************************************************)
CallerFollow ==
    /\ calls < MaxCalls
    /\ \/ /\ fpc = "idle"
          /\ \E o \in 1..MaxOffset : FollowCall(o)
       \/ /\ fpc = "done"
          /\ FollowCall(fret.height)
    /\ UNCHANGED <<tsVars, apiVars>>

Receive ==
    /\ FollowSend
    /\ UNCHANGED <<tsVars, apiVars>>

InitFollow ==
    /\ InitFollowVars
    /\ InitTimeseries
    /\ feed = [h \in 1..MaxHeight |-> <<>>]
    /\ InitApiVars

NextFollow ==
    \/ CallerFollow
    \/ FollowStatus
    \/ FollowPoll
    \/ FollowLoop
    \/ FollowFetch
    \/ Receive
    \/ FollowQuit
    \/ SignalQuit

SpecFollow == InitFollow /\ [][NextFollow]_vars

\* Follow runs: every RPC call returns, and a select with only quit ready
\* takes the quit case
FairFollow ==
    /\ WF_vars(FollowStatus)
    /\ WF_vars(FollowPoll)
    /\ WF_vars(FollowLoop)
    /\ WF_vars(FollowFetch)
    /\ WF_vars(FollowQuit)

\* Follow runs; the receiver on out may never receive
SpecFollowQuit == SpecFollow /\ FairFollow

\* Follow runs and the receiver on out keeps receiving
SpecFollowLive == SpecFollow /\ FairFollow /\ WF_vars(Receive)

(***************************************************************************)
(* One fetchBlocks call at any offset, against a node that may also answer *)
(* with long lists of metas: descending runs of up to BatchSize + 2        *)
(* heights that start just below the requested range or inside it          *)
(***************************************************************************)
Run(lo, hi) == [k \in 1..(hi - lo + 1) |-> hi + 1 - k]

RunResponses(off) ==
    {[err |-> FALSE, metas |-> Run(lo, hi)] :
        lo \in (off - 1)..(off + 1), hi \in (off - 1)..(off + BatchSize)}

FetchAny == Fetch(InfoResponses(offset) \cup RunResponses(offset))

InitFetch ==
    /\ fpc = "fetch"
    /\ offset \in 1..MaxOffset
    /\ callOffset = offset
    /\ latest = offset
    /\ batch = <<>>
    /\ bi = 1
    /\ quit \in BOOLEAN
    /\ fret = NoRet
    /\ sent = <<>>
    /\ calls = 1
    /\ delivered = <<>>
    /\ rpcs = << <<"Status">> >>
    /\ InitTimeseries
    /\ feed = [h \in 1..MaxHeight |-> <<>>]
    /\ InitApiVars

SpecFetch == InitFetch /\ [][FetchAny]_vars

(***************************************************************************)
(* The timeseries package under a caller that makes any calls: Setup when  *)
(* the process starts, then Listener callbacks and CommitBlock             *)
(***************************************************************************)
\* the process ends (if it has not) and a new one starts
Restart ==
    /\ restarts < MaxRestarts
    /\ restarts' = restarts + 1
    /\ cleanStops' = (cleanStops /\ ppc = "recv" /\ ret.op = "CommitBlock" /\ ret.err = "nil")
    /\ FreshMemory
    /\ FreshFollow
    /\ UNCHANGED <<dbVars, feed, nEvents, nCommits, passed, firstRun, heapVars, apiVars>>

\* the process starts: Setup, and the process ends when Setup fails
Startup ==
    /\ ppc = "boot"
    /\ \E fault \in QueryFaults : Setup(fault)
    /\ ppc' = IF ret'.err = "nil" THEN "ready" ELSE "exit"
    /\ UNCHANGED <<dbVars, depthSnapshot, poolIdMapperr, cur, feed, restarts, nEvents, nCommits, cleanStops, callbacks, obsVars, heapVars, apiVars>>
    /\ UNCHANGED followVars

ApiEvent ==
    /\ ppc = "ready"
    /\ nEvents < MaxEvents
    /\ \E e \in EventSet, t \in 1..MaxTime :
         /\ recorder' = event(Listener(recorder), e, t).rec
         /\ callbacks' = event(Listener(recorder), e, t).log
         /\ events' = events \cup {<<t, 0, nEvents>>}
         /\ ret' = Call(e.type, "nil", 0, 0, "", "none", 0)
    /\ nEvents' = nEvents + 1
    /\ UNCHANGED <<block_log, aggregate_states, aggregate_id_states>>
    /\ UNCHANGED <<lastBlockTrack, depthSnapshot, poolIdMapperr, ppc, cur, feed, restarts, nCommits, cleanStops, obsVars, heapVars, apiVars>>
    /\ UNCHANGED followVars

ApiCommitBlock ==
    /\ ppc = "ready"
    /\ nCommits < MaxCommits
    /\ nCommits' = nCommits + 1
    /\ \E height \in 1..MaxHeight, timestamp \in 1..MaxTime, hash \in Hashes,
          fault \in ExecFaults, encOk \in BOOLEAN,
          serial \in Encodings(recorder.assetE8DepthPerPool, recorder.runeE8DepthPerPool) :
         CommitBlock(height, timestamp, hash, fault, encOk, serial)
    /\ UNCHANGED <<events, aggregate_states, aggregate_id_states>>
    /\ UNCHANGED <<depthSnapshot, poolIdMapperr, ppc, cur, feed, restarts, nEvents, cleanStops, callbacks, obsVars, heapVars, apiVars>>
    /\ UNCHANGED followVars

InitApi ==
    /\ InitFollowVars
    /\ InitTimeseries
    /\ feed = [h \in 1..MaxHeight |-> <<>>]
    /\ InitApiVars

NextApi ==
    \/ Restart
    \/ Startup
    \/ ApiEvent
    \/ ApiCommitBlock

SpecTimeseries == InitApi /\ [][NextApi]_vars

(***************************************************************************)
(* The pipeline: Setup, then Follow from the height after the last         *)
(* committed one, and for each block received Demux.Block, update and      *)
(* CommitBlock; the process may stop and start again at any time           *)
(***************************************************************************)
StartFollow ==
    /\ ppc = "ready"
    /\ FollowCall(ret.height + 1)
    /\ ppc' = "recv"
    /\ UNCHANGED <<dbVars, memVars, cur, feed, restarts, nEvents, nCommits, cleanStops, callbacks, ret, obsVars, heapVars, apiVars>>

\* Follow returned ErrNoData: the driver calls it again with the height it returned
Refollow ==
    /\ ppc \notin {"boot", "ready", "exit"}
    /\ fpc = "done"
    /\ fret.err = "ErrNoData"
    /\ ~quit
    /\ calls < MaxCalls
    /\ FollowCall(fret.height)
    /\ UNCHANGED <<tsVars, apiVars>>

\* Follow returned for good and no block is in the pipeline: the process ends
Shutdown ==
    /\ ppc = "recv"
    /\ fpc = "done"
    /\ fret.err # "ErrNoData" \/ quit
    /\ ppc' = "exit"
    /\ FreshFollow
    /\ UNCHANGED <<dbVars, memVars, cur, feed, restarts, nEvents, nCommits, cleanStops, callbacks, ret, obsVars, heapVars, apiVars>>

PipeRecv ==
    /\ ppc = "recv"
    /\ FollowSend
    /\ cur' = batch[bi]
    /\ ppc' = "demux"
    /\ UNCHANGED <<dbVars, memVars, feed, restarts, nEvents, nCommits, cleanStops, callbacks, ret, obsVars, heapVars, apiVars>>

PipeDemux ==
    /\ ppc = "demux"
    /\ recorder' = Block(recorder, feed[cur], BlockTime(cur)).rec
    /\ callbacks' = Block(recorder, feed[cur], BlockTime(cur)).log
    /\ events' = events \cup BlockRows(feed[cur], BlockTime(cur))
    /\ ret' = Call("Block", "nil", cur, 0, "", "none", 0)
    /\ ppc' = "update"
    /\ UNCHANGED <<block_log, aggregate_states, aggregate_id_states>>
    /\ UNCHANGED <<lastBlockTrack, depthSnapshot, poolIdMapperr, cur, feed, restarts, nEvents, nCommits, cleanStops, obsVars, heapVars, apiVars>>
    /\ UNCHANGED followVars

PipeUpdate ==
    /\ ppc = "update"
    /\ \E fault \in UpdateFaults, idOrder \in SeqsUpTo(Pools, Cardinality(Pools)) :
         update(cur, recorder.assetE8DepthPerPool, recorder.runeE8DepthPerPool, fault, idOrder)
    /\ IF ret'.err = "nil"
       THEN ppc' = "commit" /\ UNCHANGED followVars
       ELSE ppc' = "exit" /\ FreshFollow
    /\ UNCHANGED <<block_log, events, lastBlockTrack, recorder>>
    /\ UNCHANGED <<cur, feed, restarts, nEvents, nCommits, cleanStops, callbacks, passed, firstRun, heapVars, apiVars>>

PipeCommit ==
    /\ ppc = "commit"
    /\ \E fault \in ExecFaults, encOk \in BOOLEAN,
          serial \in Encodings(recorder.assetE8DepthPerPool, recorder.runeE8DepthPerPool) :
         CommitBlock(cur, BlockTime(cur), BlockHash(cur), fault, encOk, serial)
    /\ IF ret'.err = "nil"
       THEN ppc' = "recv" /\ UNCHANGED followVars
       ELSE ppc' = "exit" /\ FreshFollow
    /\ UNCHANGED <<events, aggregate_states, aggregate_id_states>>
    /\ UNCHANGED <<depthSnapshot, poolIdMapperr, cur, feed, restarts, nEvents, nCommits, cleanStops, callbacks, obsVars, heapVars, apiVars>>

InitPipeline ==
    /\ InitFollowVars
    /\ InitTimeseries
    /\ feed \in Feeds
    /\ InitApiVars

NextPipeline ==
    \/ Restart
    \/ Startup
    \/ StartFollow
    \/ Refollow
    \/ Shutdown
    \/ FollowStatus
    \/ FollowPoll
    \/ FollowLoop
    \/ FollowFetch
    \/ FollowQuit
    \/ SignalQuit
    \/ PipeRecv
    \/ PipeDemux
    \/ PipeUpdate
    \/ PipeCommit

SpecPipeline == InitPipeline /\ [][NextPipeline]_vars

(***************************************************************************)
(* Demux.Block alone, on one block of any events: every known type, an     *)
(* unknown type, and an event whose attributes do not decode               *)
(***************************************************************************)
DemuxEvents ==
    {Ev(type, TRUE, "P1", "t1", 1, 1) : type \in KnownTypes \cup {"bond"}}
    \cup {Ev("stake", FALSE, "P1", "t1", 0, 0)}

DemuxBlocks == SeqsUpTo(SeqsUpTo(DemuxEvents, MaxTxEvents), MaxTxs)

InitDemux ==
    /\ InitFollowVars
    /\ block_log = EmptyMap
    /\ events = {}
    /\ aggregate_states = EmptyMap
    /\ aggregate_id_states = EmptyMap
    /\ lastBlockTrack = ZeroTrack
    /\ recorder = EmptyRecorder
    /\ depthSnapshot = EmptySnapshot
    /\ poolIdMapperr = EmptyMap
    /\ ppc = "demux"
    /\ cur = 1
    /\ restarts = 0
    /\ nEvents = 0
    /\ nCommits = 0
    /\ cleanStops = TRUE
    /\ callbacks = <<>>
    /\ ret = NoCall
    /\ dbexecs = <<>>
    /\ passed = <<>>
    /\ firstRun = NoRun
    /\ InitHeap
    /\ \E b \in DemuxBlocks : feed = [h \in 1..MaxHeight |-> b]
    /\ InitApiVars

SpecDemux == InitDemux /\ [][PipeDemux]_vars

(***************************************************************************)
(* The snapshot manager under a caller that calls update with any depth    *)
(* maps at any heights; the process may end and a new one start, which     *)
(* keeps the tables and loses depthSnapshot and poolIdMapperr              *)
(***************************************************************************)
\* the depth maps the caller passes, <<asset, rune>>: pools come, change
\* on one side or on both, and go
DepthMap(ps, v) == [p \in ps |-> v]
DepthPairs ==
    {<<EmptyMap, EmptyMap>>,
     <<DepthMap({"P1"}, 0), DepthMap({"P1"}, 0)>>,
     <<DepthMap({"P1"}, 1), DepthMap({"P1"}, 1)>>,
     <<DepthMap({"P1"}, 1), DepthMap({"P1"}, 0)>>,
     <<DepthMap({"P1"}, 1), EmptyMap>>,
     <<DepthMap({"P2"}, 1), DepthMap({"P2"}, 1)>>,
     <<DepthMap({"P1", "P2"}, 1), DepthMap({"P1", "P2"}, 1)>>}

Passed(proc, height, asset, rune, err) ==
    [proc |-> proc, height |-> height, asset |-> asset, rune |-> rune, err |-> err]

ApiUpdate ==
    /\ ppc = "ready"
    /\ Len(passed) < MaxUpdates
    /\ \E height \in 1..MaxSnapHeight, depths \in DepthPairs,
          fault \in UpdateFaults, idOrder \in SeqsUpTo(Pools, Cardinality(Pools)) :
         /\ update(height, depths[1], depths[2], fault, idOrder)
         /\ passed' = Append(passed, Passed(restarts, height, depths[1], depths[2], ret'.err))
    \* an error of update ends the process
    /\ ppc' = IF ret'.err = "nil" THEN "ready" ELSE "exit"
    /\ UNCHANGED <<block_log, events, lastBlockTrack, recorder>>
    /\ UNCHANGED <<cur, feed, restarts, nEvents, nCommits, cleanStops, callbacks, firstRun, heapVars, apiVars>>
    /\ UNCHANGED followVars

NextSnapshot ==
    \/ Restart
    \/ Startup
    \/ ApiUpdate

SpecSnapshot == InitApi /\ [][NextSnapshot]_vars

(***************************************************************************)
(* The package with a reader: one goroutine makes the calls of the         *)
(* pipeline (Setup, Listener callbacks, CommitBlock with a hash slice it   *)
(* reuses), another one calls LastBlock and AssetAndRuneDepths at any      *)
(* time, also while CommitBlock runs                                       *)
(***************************************************************************)
\* Setup, which stores the track loadBlockFromDB built
RdStartup ==
    /\ ppc = "boot"
    /\ \E fault \in QueryFaults : Setup(fault)
    /\ IF ret'.err = "nil"
       THEN /\ heap' = NewTrack(heap, lastBlockTrack'.Height, lastBlockTrack'.Timestamp,
                                Len(heap) + 1, lastBlockTrack'.Hash,
                                lastBlockTrack'.AssetE8DepthPerPool,
                                lastBlockTrack'.RuneE8DepthPerPool)
            /\ Store(Len(heap'))
            /\ ppc' = "ready"
       ELSE /\ UNCHANGED <<heap, trackPtr, stored>>
            /\ ppc' = "exit"
    /\ UNCHANGED <<building, reader>>
    /\ UNCHANGED <<dbVars, depthSnapshot, poolIdMapperr, cur, feed, restarts, nEvents, nCommits, cleanStops, callbacks, obsVars, apiVars>>
    /\ UNCHANGED followVars

\* a Listener callback between two CommitBlock calls
RdEvent ==
    /\ ppc = "ready"
    /\ nEvents < MaxEvents
    /\ \E e \in {x \in EventSet : x.type = "stake"} :
         /\ recorder' = event(Listener(recorder), e, 1).rec
         /\ callbacks' = event(Listener(recorder), e, 1).log
         /\ events' = events \cup {<<1, 0, nEvents>>}
         /\ ret' = Call(e.type, "nil", 0, 0, "", "none", 0)
    /\ nEvents' = nEvents + 1
    /\ UNCHANGED <<block_log, aggregate_states, aggregate_id_states>>
    /\ UNCHANGED <<lastBlockTrack, depthSnapshot, poolIdMapperr, ppc, cur, feed, restarts, nCommits, cleanStops, obsVars, heapVars, apiVars>>
    /\ UNCHANGED followVars

\* the caller writes the next hash into its slice
RdReuse ==
    /\ ppc = "ready"
    /\ \E hash \in Hashes \ {heap[CallerBuf]} : heap' = [heap EXCEPT ![CallerBuf] = hash]
    /\ UNCHANGED <<trackPtr, building, stored, reader>>
    /\ UNCHANGED <<dbVars, memVars, procVars, obsVars, apiVars>>
    /\ UNCHANGED followVars

\* CommitBlock, up to copy(track.Hash, hash)
RdCommitBuild ==
    /\ ppc = "ready"
    /\ nCommits < MaxCommits
    /\ \E height \in 1..MaxHeight :
         heap' = NewTrack(heap, height, BlockTime(height), HashCell(CallerBuf, Len(heap) + 1),
                          heap[CallerBuf], AssetE8DepthPerPool(recorder),
                          RuneE8DepthPerPool(recorder))
    /\ building' = Len(heap')
    /\ ppc' = "commit"
    /\ UNCHANGED <<trackPtr, stored, reader>>
    /\ UNCHANGED <<dbVars, memVars, cur, feed, restarts, nEvents, nCommits, cleanStops, callbacks, ret, obsVars, apiVars>>
    /\ UNCHANGED followVars

\* CommitBlock, from the Encode to the return
RdCommitStore ==
    /\ ppc = "commit"
    /\ \E fault \in ExecFaults, encOk \in BOOLEAN,
          serial \in Encodings(recorder.assetE8DepthPerPool, recorder.runeE8DepthPerPool) :
         CommitBlock(heap[building].Height, heap[building].Timestamp, heap[CallerBuf],
                     fault, encOk, serial)
    /\ IF ret'.err = "nil"
       THEN heap' = heap /\ Store(building)
       ELSE UNCHANGED <<heap, trackPtr, stored>>
    /\ building' = 0
    /\ nCommits' = nCommits + 1
    /\ ppc' = "ready"
    /\ UNCHANGED reader
    /\ UNCHANGED <<events, aggregate_states, aggregate_id_states>>
    /\ UNCHANGED <<depthSnapshot, poolIdMapperr, cur, feed, restarts, nEvents, cleanStops, callbacks, obsVars, apiVars>>
    /\ UNCHANGED followVars

\* LastBlock or AssetAndRuneDepths: lastBlockTrack.Load().(*blockTrack)
RdLoad ==
    /\ reader.pc = "idle"
    /\ trackPtr # 0
    /\ \E call \in {"LastBlock", "AssetAndRuneDepths"} :
         reader' = [reader EXCEPT !.pc = call, !.ptr = trackPtr]
    /\ UNCHANGED <<heap, trackPtr, building, stored>>
    /\ UNCHANGED <<dbVars, memVars, procVars, obsVars, apiVars>>
    /\ UNCHANGED followVars

\* LastBlock or AssetAndRuneDepths: the return, which reads the fields of
\* the track loaded; refs are the slice and the maps returned, seen what
\* they hold at the return
RdReturn ==
    /\ reader.pc # "idle"
    /\ LET t == heap[reader.ptr]
           refs == IF reader.pc = "LastBlock" THEN <<t.Hash>> ELSE <<t.Asset, t.Rune>>
       IN  reader' = [pc |-> "idle", ptr |-> 0,
                      got |-> [call |-> reader.pc, ptr |-> reader.ptr,
                               height |-> IF reader.pc = "LastBlock" THEN t.Height ELSE 0,
                               timestamp |-> t.Timestamp,
                               refs |-> refs,
                               seen |-> [i \in DOMAIN refs |-> heap[refs[i]]]]]
    /\ UNCHANGED <<heap, trackPtr, building, stored>>
    /\ UNCHANGED <<dbVars, memVars, procVars, obsVars, apiVars>>
    /\ UNCHANGED followVars

NextReaders ==
    \/ RdStartup
    \/ RdEvent
    \/ RdReuse
    \/ RdCommitBuild
    \/ RdCommitStore
    \/ RdLoad
    \/ RdReturn

SpecReaders == InitApi /\ [][NextReaders]_vars

(***************************************************************************)
(* Two independent runs of the pipeline over the same blocks from height   *)
(* 1, each on a database of its own: Setup, then for each height           *)
(* Demux.Block, update and CommitBlock. The second run starts when the     *)
(* first has committed the last height; the block_log of the first is      *)
(* kept for comparison.                                                    *)
(***************************************************************************)
\* the run starts after Setup, at the height after the one Setup returned
RunStart ==
    /\ ppc = "ready"
    /\ cur' = ret.height
    /\ ppc' = "recv"
    /\ UNCHANGED <<dbVars, memVars, feed, restarts, nEvents, nCommits, cleanStops, callbacks, ret, obsVars, heapVars, apiVars>>
    /\ UNCHANGED followVars

\* the next block of the stream arrives
RunBlock ==
    /\ ppc = "recv"
    /\ cur < MaxHeight
    /\ cur' = cur + 1
    /\ ppc' = "demux"
    /\ UNCHANGED <<dbVars, memVars, feed, restarts, nEvents, nCommits, cleanStops, callbacks, ret, obsVars, heapVars, apiVars>>
    /\ UNCHANGED followVars

\* the first run is through: a second one starts on an empty database
SecondRun ==
    /\ ppc = "recv"
    /\ cur = MaxHeight
    /\ ~firstRun.done
    /\ firstRun' = [done |-> TRUE, log |-> block_log]
    /\ block_log' = EmptyMap
    /\ events' = {}
    /\ aggregate_states' = EmptyMap
    /\ aggregate_id_states' = EmptyMap
    /\ FreshMemory
    /\ UNCHANGED <<feed, restarts, nEvents, nCommits, cleanStops, passed, heapVars, apiVars>>
    /\ UNCHANGED followVars

NextTwoRuns ==
    \/ Startup
    \/ RunStart
    \/ RunBlock
    \/ PipeDemux
    \/ PipeUpdate
    \/ PipeCommit
    \/ SecondRun

SpecTwoRuns == InitPipeline /\ [][NextTwoRuns]_vars

(***************************************************************************)
(* timescale.Client: the pool cache, and goroutines that call              *)
(* updatePoolCache on one Client                                           *)
(***************************************************************************)
\* goroutines that call updatePoolCache
MaxWriters == 2
\* calls each of them makes
MaxPoolCalls == 2

\* the (assetChanges, runeChanges) a call passes
ChangePairs == {<<1, 1>>, <<-1, 2>>, <<2, 0>>}

\* what SELECT pool, SUM(asset_amount), SUM(rune_amount) ... GROUP BY pool
\* returns: one row per pool, each sum a sql.NullInt64 (NULL when every
\* amount is)
NullInt64(v, valid) == [Int64 |-> IF valid THEN v ELSE 0, Valid |-> valid]
PoolHistories ==
    { <<>>,
      << [pool |-> "P1", assetDepth |-> NullInt64(1, TRUE), runeDepth |-> NullInt64(2, TRUE)] >>,
      << [pool |-> "P1", assetDepth |-> NullInt64(3, TRUE), runeDepth |-> NullInt64(0, FALSE)] >> }

CacheFaults == {"none", "query", "scan"}

\* initPoolCache: the error it returns and s.pools afterwards (old is
\* s.pools before the call); a failing Scan is the one of the first row
initPoolCache(old, rows, fault) ==
    IF fault = "query" THEN [err |-> "query", pools |-> old]
    ELSE IF fault = "scan" /\ Len(rows) > 0 THEN [err |-> "scan", pools |-> EmptyMap]
    ELSE [err |-> "nil",
          pools |-> [p \in {rows[i].pool : i \in 1..Len(rows)} |->
                       LET i == CHOOSE j \in 1..Len(rows) : rows[j].pool = p
                       IN  [assetDepth |-> rows[i].assetDepth.Int64,
                            runeDepth |-> rows[i].runeDepth.Int64]]]

IdleWriter ==
    [pc |-> "idle", pool |-> "", assetChanges |-> 0, runeChanges |-> 0,
     reg |-> 0, assetDepth |-> 0, runeDepth |-> 0, n |-> 0]

\* mutant: the call does not wait for the lock
TryLock_NoWait(m) == TRUE

\* s.mu.Lock() goes on when no goroutine holds the lock
TryLock(m) == m = 0

\* a goroutine calls updatePoolCache(pool, assetChanges, runeChanges)
UpcCall(w) ==
    /\ writers[w].pc = "idle"
    /\ writers[w].n < MaxPoolCalls
    /\ \E pool \in Pools, c \in ChangePairs :
         writers' = [writers EXCEPT ![w] =
                       [pc |-> "lock", pool |-> pool, assetChanges |-> c[1],
                        runeChanges |-> c[2], reg |-> 0, assetDepth |-> 0,
                        runeDepth |-> 0, n |-> @.n + 1]]
    /\ UNCHANGED <<pools, mu, poolLog>>
    /\ UNCHANGED <<followVars, tsVars, readVars, storeVars, mdVars>>

\* s.mu.Lock()
UpcLock(w) ==
    /\ writers[w].pc = "lock"
    /\ TryLock(mu)
    /\ mu' = w
    /\ writers' = [writers EXCEPT ![w].pc = "lookup"]
    /\ UNCHANGED <<pools, poolLog>>
    /\ UNCHANGED <<followVars, tsVars, readVars, storeVars, mdVars>>

\* p, ok := s.pools[pool]; if !ok { p = &poolCache{}; s.pools[pool] = p }
UpcLookup(w) ==
    /\ writers[w].pc = "lookup"
    /\ pools' = IF writers[w].pool \in DOMAIN pools THEN pools
                ELSE Put(pools, writers[w].pool, [assetDepth |-> 0, runeDepth |-> 0])
    /\ writers' = [writers EXCEPT ![w].pc = "loadAsset"]
    /\ UNCHANGED <<mu, poolLog>>
    /\ UNCHANGED <<followVars, tsVars, readVars, storeVars, mdVars>>

\* p.assetDepth += assetChanges: the read
UpcLoadAsset(w) ==
    /\ writers[w].pc = "loadAsset"
    /\ writers' = [writers EXCEPT ![w].pc = "storeAsset",
                                  ![w].reg = pools[writers[w].pool].assetDepth]
    /\ UNCHANGED <<pools, mu, poolLog>>
    /\ UNCHANGED <<followVars, tsVars, readVars, storeVars, mdVars>>

\* p.assetDepth += assetChanges: the write
UpcStoreAsset(w) ==
    /\ writers[w].pc = "storeAsset"
    /\ pools' = [pools EXCEPT ![writers[w].pool].assetDepth =
                                writers[w].reg + writers[w].assetChanges]
    /\ writers' = [writers EXCEPT ![w].pc = "loadRune"]
    /\ UNCHANGED <<mu, poolLog>>
    /\ UNCHANGED <<followVars, tsVars, readVars, storeVars, mdVars>>

\* p.runeDepth += runeChanges: the read
UpcLoadRune(w) ==
    /\ writers[w].pc = "loadRune"
    /\ writers' = [writers EXCEPT ![w].pc = "storeRune",
                                  ![w].reg = pools[writers[w].pool].runeDepth]
    /\ UNCHANGED <<pools, mu, poolLog>>
    /\ UNCHANGED <<followVars, tsVars, readVars, storeVars, mdVars>>

\* p.runeDepth += runeChanges: the write
UpcStoreRune(w) ==
    /\ writers[w].pc = "storeRune"
    /\ pools' = [pools EXCEPT ![writers[w].pool].runeDepth =
                                writers[w].reg + writers[w].runeChanges]
    /\ writers' = [writers EXCEPT ![w].pc = "return"]
    /\ UNCHANGED <<mu, poolLog>>
    /\ UNCHANGED <<followVars, tsVars, readVars, storeVars, mdVars>>

\* return p.assetDepth, p.runeDepth, and the deferred s.mu.Unlock()
UpcReturn(w) ==
    /\ writers[w].pc = "return"
    /\ LET p == pools[writers[w].pool]
       IN  /\ writers' = [writers EXCEPT ![w].pc = "idle",
                                         ![w].assetDepth = p.assetDepth,
                                         ![w].runeDepth = p.runeDepth]
           /\ poolLog' = [poolLog EXCEPT !.calls =
                            Append(@, [w |-> w, pool |-> writers[w].pool,
                                       assetChanges |-> writers[w].assetChanges,
                                       runeChanges |-> writers[w].runeChanges,
                                       assetDepth |-> p.assetDepth,
                                       runeDepth |-> p.runeDepth])]
    /\ mu' = 0
    /\ UNCHANGED pools
    /\ UNCHANGED <<followVars, tsVars, readVars, storeVars, mdVars>>

\* a Client that NewClient returned: initPoolCache has filled the cache
InitCache ==
    /\ InitFollowVars
    /\ InitTimeseries
    /\ feed = [h \in 1..MaxHeight |-> <<>>]
    /\ pools \in {initPoolCache(EmptyMap, rows, "none").pools : rows \in PoolHistories}
    /\ mu = 0
    /\ writers = [w \in 1..MaxWriters |-> IdleWriter]
    /\ poolLog = [init |-> pools, calls |-> <<>>]
    /\ set_node_keys_events = <<>>
    /\ apiCall = NoApiCall
    /\ eventRecords = {}
    /\ storeCall = NoStoreCall
    /\ snapCells = NoCells
    /\ md = EmptyMap
    /\ mdCall = NoMdCall

NextCache ==
    \E w \in 1..MaxWriters :
        \/ UpcCall(w)
        \/ UpcLock(w)
        \/ UpcLookup(w)
        \/ UpcLoadAsset(w)
        \/ UpcStoreAsset(w)
        \/ UpcLoadRune(w)
        \/ UpcStoreRune(w)
        \/ UpcReturn(w)

SpecCache == InitCache /\ [][NextCache]_vars

(***************************************************************************)
(* timeseries: the lookups for a point in time                             *)
(***************************************************************************)
\* time.Time{}, the zero Time: before the timestamp of every block
ZeroTime == 0
IsZero(t) == t = ZeroTime
Before(t, u) == t < u
UnixNano(t) == t

\* the moments a caller asks for
Moments == {ZeroTime} \cup 1..(MaxTime + 1)

\* DBQuery fails, rows.Scan fails (on the first row), or rows.Err is set
LookupFaults == {"none", "query", "scan", "rows"}
\* what a query returns: no row or one
LookupRows == {<<>>, << <<"x", "y">> >>}

Query(q, args) == [q |-> q, args |-> args]
ApiRet(fn, args, err, queries, val) ==
    [fn |-> fn, args |-> args, err |-> err, queries |-> queries, val |-> val]

\* mutant: the request is denied when the moment is before the last block
BeyondLast_Reversed(timestamp, moment) == Before(moment, timestamp)

\* timestamp.Before(moment)
BeyondLast(timestamp, moment) == Before(timestamp, moment)

\* mutant: a zero moment is queried as it is
Latest_KeepZero(timestamp, moment) == moment

\* if moment.IsZero() { moment = timestamp }
Latest(timestamp, moment) == IF IsZero(moment) THEN timestamp ELSE moment

\* _, timestamp, _ := LastBlock(); if moment.IsZero() {...} else if
\* timestamp.Before(moment) {...}: whether the request is denied, and the
\* moment the query is made for
Resolve(moment) ==
    [beyond |-> ~IsZero(moment) /\ BeyondLast(LastBlock.timestamp, moment),
     moment |-> Latest(LastBlock.timestamp, moment)]

\* one query and the loop over its rows: the error of the first failure
\* (wrapped as the lookup wraps it) and the rows read
Rows(rows, fault) ==
    IF fault = "query" THEN [err |-> "lookup", rows |-> <<>>]
    ELSE IF fault = "scan" /\ Len(rows) > 0 THEN [err |-> "retrieve", rows |-> <<>>]
    ELSE IF fault = "rows" THEN [err |-> "rows", rows |-> rows]
    ELSE [err |-> "nil", rows |-> rows]

\* a fault occurs only at a call that is made
RowsFault(rows, fault) == fault = "scan" => Len(rows) > 0

\* Pools, StakeAddrs and Mimir: one query with the moment
LookupOne(fn, q, moment, rows, fault) ==
    LET m == Resolve(moment)
        r == Rows(rows, fault)
    IN  IF m.beyond THEN ApiRet(fn, <<moment>>, "errBeyondLast", <<>>, <<>>)
        ELSE ApiRet(fn, <<moment>>, r.err, <<Query(q, <<UnixNano(m.moment)>>)>>, r.rows)

LookupPools(moment, rows, fault) ==
    LookupOne("Pools", "stake_events GROUP BY pool", moment, rows, fault)

StakeAddrs(moment, rows, fault) ==
    LookupOne("StakeAddrs", "stake_events GROUP BY rune_addr", moment, rows, fault)

Mimir(moment, rows, fault) ==
    LookupOne("Mimir", "set_mimir_event_entries", moment, rows, fault)

\* PoolStatus: the query takes the pool and the moment
PoolStatus(pool, moment, rows, fault) ==
    LET m == Resolve(moment)
        r == Rows(rows, fault)
    IN  IF m.beyond THEN ApiRet("PoolStatus", <<pool, moment>>, "errBeyondLast", <<>>, <<>>)
        ELSE ApiRet("PoolStatus", <<pool, moment>>, r.err,
                    <<Query("pool_events", <<pool, UnixNano(m.moment)>>)>>,
                    IF r.err = "nil" THEN r.rows ELSE <<>>)

\* newNodes(ctx, moment)
newNodes(moment, rows, fault) ==
    LET r == Rows(rows, fault)
    IN  [err |-> r.err, queries |-> <<Query("new_node_events", <<UnixNano(moment)>>)>>,
         m |-> r.rows]

\* StatusPerNode: newNodes, then the status events, both for the moment
StatusPerNode(moment, nrows, nfault, rows, fault) ==
    LET m == Resolve(moment)
        n == newNodes(m.moment, nrows, nfault)
        r == Rows(rows, fault)
    IN  IF m.beyond THEN ApiRet("StatusPerNode", <<moment>>, "errBeyondLast", <<>>, <<>>)
        ELSE IF n.err # "nil" THEN ApiRet("StatusPerNode", <<moment>>, n.err, n.queries, <<>>)
        ELSE ApiRet("StatusPerNode", <<moment>>, r.err,
                    n.queries \o <<Query("update_node_account_status_events",
                                         <<UnixNano(m.moment)>>)>>,
                    IF r.err = "lookup" THEN <<>> ELSE n.m \o r.rows)

\* the caller of the last lookup or handler call has taken its result
ApiRespond ==
    /\ apiCall # NoApiCall
    /\ apiCall' = NoApiCall
    /\ UNCHANGED <<followVars, tsVars, cacheVars, set_node_keys_events, storeVars, mdVars>>

\* a handler of the running process makes a lookup
ApiLookup ==
    /\ ppc = "ready"
    /\ apiCall = NoApiCall
    /\ \E moment \in Moments, rows \in LookupRows, fault \in LookupFaults :
         /\ RowsFault(rows, fault)
         /\ \/ apiCall' = LookupPools(moment, rows, fault)
            \/ apiCall' = StakeAddrs(moment, rows, fault)
            \/ apiCall' = Mimir(moment, rows, fault)
            \/ \E pool \in Pools : apiCall' = PoolStatus(pool, moment, rows, fault)
            \/ \E nrows \in LookupRows, nfault \in LookupFaults :
                 /\ RowsFault(nrows, nfault)
                 /\ apiCall' = StatusPerNode(moment, nrows, nfault, rows, fault)
    /\ UNCHANGED <<followVars, tsVars, cacheVars, set_node_keys_events, storeVars, mdVars>>

NextLookup ==
    \/ Restart
    \/ Startup
    \/ ApiCommitBlock
    \/ ApiLookup
    \/ ApiRespond

SpecLookup == InitApi /\ [][NextLookup]_vars

(***************************************************************************)
(* timeseries: NodesSecpAndEd                                              *)
(***************************************************************************)
\* rows in set_node_keys_events
MaxKeyRows == 2

NodeAddrs == {"n1", "n2"}
SecpKeys == {"s1", "s2"}
EdKeys == {"e1", "e2"}
KeyRows ==
    [node_addr : NodeAddrs, secp256k1 : SecpKeys, ed25519 : EdKeys,
     block_timestamp : 1..MaxTime]

\* WHERE block_timestamp <= $1: the rows read, in the order they are read
Select(table, t) ==
    LET RECURSIVE sel(_)
        sel(k) == IF k = 0 THEN <<>>
                  ELSE IF table[k].block_timestamp <= t
                       THEN Append(sel(k - 1), table[k])
                       ELSE sel(k - 1)
    IN  sel(Len(table))

\* map[string]string with m[key] = addr
PutStr(m, key, addr) == [k \in DOMAIN m \cup {key} |-> IF k = key THEN addr ELSE m[k]]

\* the loop of NodesSecpAndEd over the first k rows read
RECURSIVE NodeMaps(_, _)
NodeMaps(rows, k) ==
    IF k = 0 THEN [secp256k1Addrs |-> <<>>, ed25519Addrs |-> <<>>]
    ELSE LET m == NodeMaps(rows, k - 1)
             addr == rows[k].node_addr
             secp == rows[k].secp256k1
         IN  [secp256k1Addrs |-> PutStr(m.secp256k1Addrs, secp, addr),
              \* ed25519Addrs[secp] = addr
              ed25519Addrs |-> PutStr(m.ed25519Addrs, secp, addr)]

NodesSecpAndEd(t, table, fault) ==
    LET rows == Select(table, UnixNano(t))
        q == <<Query("set_node_keys_events", <<UnixNano(t)>>)>>
    IN  IF fault = "query" THEN ApiRet("NodesSecpAndEd", <<t>>, "lookup", q, <<>>)
        ELSE IF fault = "scan" /\ Len(rows) > 0
        THEN ApiRet("NodesSecpAndEd", <<t>>, "resolve", q, <<>>)
        ELSE ApiRet("NodesSecpAndEd", <<t>>, "nil", q, NodeMaps(rows, Len(rows)))

\* serveV1Nodes makes the lookup
ApiNodes ==
    /\ apiCall = NoApiCall
    /\ \E t \in 1..(MaxTime + 1), fault \in {"none", "query", "scan"} :
         apiCall' = NodesSecpAndEd(t, set_node_keys_events, fault)
    /\ UNCHANGED <<followVars, tsVars, cacheVars, set_node_keys_events, storeVars, mdVars>>

\* the package with any rows in set_node_keys_events
InitNodes ==
    /\ InitFollowVars
    /\ InitTimeseries
    /\ feed = [h \in 1..MaxHeight |-> <<>>]
    /\ pools = EmptyMap
    /\ mu = 0
    /\ writers = <<>>
    /\ poolLog = <<>>
    /\ set_node_keys_events \in SeqsUpTo(KeyRows, MaxKeyRows)
    /\ apiCall = NoApiCall
    /\ eventRecords = {}
    /\ storeCall = NoStoreCall
    /\ snapCells = NoCells
    /\ md = EmptyMap
    /\ mdCall = NoMdCall

NextNodes ==
    \/ ApiNodes
    \/ ApiRespond

SpecNodes == InitNodes /\ [][NextNodes]_vars

(***************************************************************************)
(* timescale: the event store behind TestGetMaxID                          *)
(***************************************************************************)
\* greatest event ID a caller records
MaxEventID == 3
\* event records the store holds at most
MaxRecords == 3

\* common.NewChain("BNB"), common.NewChain("BTC")
Chains == {"BNB", "BTC"}
\* the events a caller records: an ID and the chain of its transaction
EventRecords == [id : 1..MaxEventID, chain : Chains]

StoreFaults == {"none", "db"}

StoreRet(op, chain, err, maxID) == [op |-> op, chain |-> chain, err |-> err, maxID |-> maxID]

\* mutant: the chain is not looked at
GetMaxID_AnyChain(records, chain) ==
    IF records = {} THEN 0 ELSE Max({r.id : r \in records})

\* GetMaxID(chain): the greatest ID stored for the chain, for every chain
\* when chain is "", and 0 when there is none
GetMaxID(records, chain) ==
    LET ids == {r.id : r \in {x \in records : chain = "" \/ x.chain = chain}}
    IN  IF ids = {} THEN 0 ELSE Max(ids)

\* s.Store.CreateEventRecord(event)
CreateEventRecord ==
    /\ \E rec \in EventRecords, fault \in StoreFaults :
         /\ Cardinality(eventRecords \cup {rec}) <= MaxRecords
         /\ eventRecords' = IF fault = "none" THEN eventRecords \cup {rec} ELSE eventRecords
         /\ storeCall' = StoreRet("CreateEventRecord", rec.chain,
                                  IF fault = "none" THEN "nil" ELSE "db", 0)
    /\ UNCHANGED <<followVars, tsVars, cacheVars, readVars, mdVars>>

\* s.Store.GetMaxID(chain)
CallGetMaxID ==
    /\ \E chain \in Chains \cup {""}, fault \in StoreFaults :
         storeCall' = IF fault = "none"
                      THEN StoreRet("GetMaxID", chain, "nil", GetMaxID(eventRecords, chain))
                      ELSE StoreRet("GetMaxID", chain, "db", 0)
    /\ UNCHANGED <<followVars, tsVars, cacheVars, readVars, mdVars, eventRecords>>

NextStore ==
    \/ CreateEventRecord
    \/ CallGetMaxID

SpecStore == InitApi /\ [][NextStore]_vars

\* AssetAndRuneDepths(): the maps and the timestamp of the track last stored
AssetAndRuneDepths ==
    [assetE8PerPool |-> lastBlockTrack.AssetE8DepthPerPool,
     runeE8PerPool |-> lastBlockTrack.RuneE8DepthPerPool,
     timestamp |-> lastBlockTrack.Timestamp]

(***************************************************************************)
(* snapshotManager.update under a caller that keeps its two depth maps,    *)
(* changes them in place between calls, and calls again after an error     *)
(***************************************************************************)
\* cells of heap: the caller's maps, and the maps the two mapDiffs make
CallerAsset == 1
CallerRune == 2
AssetCell == 3
RuneCell == 4

\* mutant: md.snapshot = newMap
SaveCell_Alias(newMap, own) == newMap

\* mapDiff.save: md.snapshot = mapStrInt{}, a map of its own
SaveCell(newMap, own) == own

\* update(height, asset, rune) with the caller's maps, at the next height
RetryUpdate ==
    /\ ppc = "ready"
    /\ Len(passed) < MaxUpdates
    /\ \E fault \in UpdateFaults, idOrder \in SeqsUpTo(Pools, Cardinality(Pools)) :
         /\ update(Len(passed) + 1, heap[CallerAsset], heap[CallerRune], fault, idOrder)
         /\ passed' = Append(passed, Passed(restarts, Len(passed) + 1, heap[CallerAsset],
                                            heap[CallerRune], ret'.err))
    /\ snapCells' = [asset |-> SaveCell(CallerAsset, AssetCell),
                     rune |-> SaveCell(CallerRune, RuneCell)]
    /\ heap' = [heap EXCEPT ![AssetCell] = depthSnapshot'.assetE8DepthSnapshot,
                            ![RuneCell] = depthSnapshot'.runeE8DepthSnapshot]
    /\ UNCHANGED <<block_log, events, lastBlockTrack, recorder>>
    /\ UNCHANGED <<ppc, cur, feed, restarts, nEvents, nCommits, cleanStops, callbacks, firstRun>>
    /\ UNCHANGED <<trackPtr, building, stored, reader>>
    /\ UNCHANGED <<followVars, cacheVars, readVars, storeVars, md, mdCall>>

\* the caller writes other depths into its maps; a mapDiff whose snapshot
\* is one of these maps sees them
RetryChange ==
    /\ ppc = "ready"
    /\ Len(passed) < MaxUpdates
    /\ \E depths \in DepthPairs :
         /\ <<heap[CallerAsset], heap[CallerRune]>> # depths
         /\ heap' = [heap EXCEPT ![CallerAsset] = depths[1], ![CallerRune] = depths[2]]
    /\ depthSnapshot' =
         IF snapCells = NoCells THEN depthSnapshot
         ELSE [depthSnapshot EXCEPT !.assetE8DepthSnapshot = heap'[snapCells.asset],
                                    !.runeE8DepthSnapshot = heap'[snapCells.rune]]
    /\ UNCHANGED <<dbVars, lastBlockTrack, recorder, poolIdMapperr, procVars, obsVars>>
    /\ UNCHANGED <<trackPtr, building, stored, reader>>
    /\ UNCHANGED <<followVars, cacheVars, readVars, storeVars, mdVars>>

\* the depth tables as an earlier process may have left them: empty, or
\* with the rows of height 1 for pool P1 (pool id 0)
EarlierDepthRows ==
    { <<EmptyMap, EmptyMap>>,
      << [k \in {<<1, "P1">>} |-> [asset_e8 |-> 1, rune_e8 |-> 1]],
         [k \in {<<1, 0>>} |-> [asset_e8 |-> 1, rune_e8 |-> 1]] >> }

\* a process that has run Setup on an empty block_log
InitRetry ==
    /\ InitFollowVars
    /\ block_log = EmptyMap
    /\ events = {}
    /\ \E t \in EarlierDepthRows : aggregate_states = t[1] /\ aggregate_id_states = t[2]
    /\ lastBlockTrack = ZeroTrack
    /\ recorder = EmptyRecorder
    /\ depthSnapshot = EmptySnapshot
    /\ poolIdMapperr = EmptyMap
    /\ ppc = "ready"
    /\ cur = 0
    /\ feed = [h \in 1..MaxHeight |-> <<>>]
    /\ restarts = 0
    /\ nEvents = 0
    /\ nCommits = 0
    /\ cleanStops = TRUE
    /\ callbacks = <<>>
    /\ ret = NoCall
    /\ dbexecs = <<>>
    /\ passed = <<>>
    /\ firstRun = NoRun
    /\ heap = <<EmptyMap, EmptyMap, EmptyMap, EmptyMap>>
    /\ trackPtr = 0
    /\ building = 0
    /\ stored = EmptyMap
    /\ reader = [pc |-> "idle", ptr |-> 0, got |-> NoRead]
    /\ InitApiVars

NextRetry ==
    \/ RetryUpdate
    \/ RetryChange

SpecRetry == InitRetry /\ [][NextRetry]_vars

(***************************************************************************)
(* One mapDiff under a caller that saves and diffs any maps                *)
(***************************************************************************)
\* greatest depth in the maps handed to a mapDiff
MaxDepth == 2

\* the maps handed to save and diff: any pools, depths 0..MaxDepth
DiffMaps == UNION {[ps -> 0..MaxDepth] : ps \in SUBSET Pools}

MdRet(op, newMap, val) == [op |-> op, newMap |-> newMap, val |-> val]

\* mutant: every key the snapshot has and newMap lacks is returned as 0
Deleted_All(oldv) == TRUE

\* if !ok && oldv != 0: a key newMap lacks is returned when its old value
\* is not 0
Deleted(oldv) == oldv # 0

\* mapDiff.diff (the values of newMap are the integers its pointers point to)
diff(snapshot, newMap) ==
    LET changed == {k \in DOMAIN newMap : k \notin DOMAIN snapshot \/ snapshot[k] # newMap[k]}
        deleted == {k \in DOMAIN snapshot \ DOMAIN newMap : Deleted(snapshot[k])}
    IN  [k \in changed \cup deleted |-> IF k \in changed THEN newMap[k] ELSE 0]

\* md.save(newMap)
MdSave ==
    /\ \E newMap \in DiffMaps :
         /\ md' = save(md, newMap)
         /\ mdCall' = MdRet("save", newMap, EmptyMap)
    /\ UNCHANGED <<followVars, tsVars, cacheVars, readVars, storeVars, snapCells>>

\* md.diff(newMap)
MdDiff ==
    /\ \E newMap \in DiffMaps : mdCall' = MdRet("diff", newMap, diff(md, newMap))
    /\ UNCHANGED <<followVars, tsVars, cacheVars, readVars, storeVars, snapCells, md>>

NextMapDiff ==
    \/ MdSave
    \/ MdDiff

SpecMapDiff == InitApi /\ [][NextMapDiff]_vars

(***************************************************************************)
(* api: poolsAsset. The entries of the result map are held as the numbers  *)
(* (integers, big.Rat values) that intStr, ratIntStr and ratFloatStr format *)
(***************************************************************************)
\* greatest total in the stake, unstake and swap statistics of a pool
MaxTotal == 2

Abs(x) == IF x < 0 THEN -x ELSE x
RECURSIVE GCD(_, _)
GCD(a, b) == IF b = 0 THEN a ELSE GCD(b, a % b)

\* a nil *big.Rat
NilRat == [num |-> 0, den |-> 0]
\* big.NewRat(a, b), b # 0: the fraction in lowest terms, denominator > 0
NewRat(a, b) ==
    LET g == GCD(Abs(a), Abs(b))
        s == IF b < 0 THEN -1 ELSE 1
    IN  [num |-> s * (a \div g), den |-> Abs(b) \div g]
RatAdd(x, y) == NewRat(x.num * y.den + y.num * x.den, x.den * y.den)
RatMul(x, y) == NewRat(x.num * y.num, x.den * y.den)
RatQuo(x, y) == NewRat(x.num * y.den, x.den * y.num)
\* new(big.Int).Div(v.Num(), v.Denom()): Euclidean division
RatInt(v) == v.num \div v.den

\* stat.PoolStakes, stat.PoolUnstakes: the fields poolsAsset reads
StakeStats ==
    {[AssetE8Total |-> a, RuneE8Total |-> r, StakeUnitsTotal |-> a + r,
      TxCount |-> IF a + r = 0 THEN 0 ELSE 1] : a \in 0..MaxTotal, r \in 0..MaxTotal}
\* stat.PoolSwaps: no swap, or one
SwapStats ==
    {[TxCount |-> n, AssetE8Total |-> n, LiqFeeE8Total |-> n, TradeSlipBPTotal |-> 3 * n] :
        n \in 0..1}

PoolsAssetFaults ==
    {"none", "PoolStatus", "StakeAddrs", "PoolStakesLookup", "PoolUnstakesLookup",
     "PoolSwapsFromRuneLookup", "PoolSwapsToRuneLookup"}

\* m[key] = value for the keys of add, on top of m
Set(m, add) == [k \in DOMAIN m \cup DOMAIN add |-> IF k \in DOMAIN add THEN add[k] ELSE m[k]]
\* if cond { m[key] = value }
SetIf(m, cond, key, value) == IF cond THEN Set(m, [k \in {key} |-> value]) ELSE m

\* if assetROI != nil || runeROI != nil
HasROI(assetROI, runeROI) == assetROI # NilRat \/ runeROI # NilRat

\* avg.Add(assetROI, runeROI) dereferences both
AddPanics(x, y) == x = NilRat \/ y = NilRat

\* the entries set under if assetDepth != 0
PriceEntries(assetDepth, runeDepth, stakes, unstakes, from, to) ==
    LET priceInRune == NewRat(runeDepth, assetDepth)
        poolStakedTotal ==
            RatAdd(RatMul(NewRat(stakes.AssetE8Total - unstakes.AssetE8Total, 1), priceInRune),
                   NewRat(stakes.RuneE8Total - unstakes.RuneE8Total, 1))
        buyVolume == RatMul(NewRat(from.AssetE8Total, 1), priceInRune)
        sellVolume == RatMul(NewRat(to.AssetE8Total, 1), priceInRune)
        poolVolume == RatMul(NewRat(from.AssetE8Total + to.AssetE8Total, 1), priceInRune)
        m1 == [k \in {"price", "poolStakedTotal", "buyVolume", "sellVolume", "poolVolume"} |->
                  CASE k = "price" -> priceInRune
                    [] k = "poolStakedTotal" -> RatInt(poolStakedTotal)
                    [] k = "buyVolume" -> RatInt(buyVolume)
                    [] k = "sellVolume" -> RatInt(sellVolume)
                    [] k = "poolVolume" -> RatInt(poolVolume)]
        m2 == SetIf(m1, from.TxCount # 0, "buyTxAverage",
                    IF from.TxCount # 0 THEN RatQuo(buyVolume, NewRat(from.TxCount, 1)) ELSE NilRat)
        m3 == SetIf(m2, to.TxCount # 0, "sellTxAverage",
                    IF to.TxCount # 0 THEN RatQuo(sellVolume, NewRat(to.TxCount, 1)) ELSE NilRat)
    IN  SetIf(m3, from.TxCount + to.TxCount # 0, "poolTxAverage",
              IF from.TxCount + to.TxCount # 0
              THEN RatQuo(poolVolume, NewRat(from.TxCount + to.TxCount, 1)) ELSE NilRat)

\* the entries set from the swap counts, after the ROI entries
SwapEntries(from, to) ==
    LET n == from.TxCount + to.TxCount
        avg(total, k) == IF k # 0 THEN NewRat(total, k) ELSE NilRat
        slip(total, k) == IF k # 0 THEN RatQuo(NewRat(total, k), NewRat(10000, 1)) ELSE NilRat
        m1 == SetIf(EmptyMap, from.TxCount # 0, "buyFeeAverage",
                    avg(from.LiqFeeE8Total, from.TxCount))
        m2 == SetIf(m1, to.TxCount # 0, "sellFeeAverage", avg(to.LiqFeeE8Total, to.TxCount))
        m3 == SetIf(m2, n # 0, "poolFeeAverage", avg(from.LiqFeeE8Total + to.LiqFeeE8Total, n))
        m4 == SetIf(m3, from.TxCount # 0, "buySlipAverage",
                    slip(from.TradeSlipBPTotal, from.TxCount))
        m5 == SetIf(m4, to.TxCount # 0, "sellSlipAverage", slip(to.TradeSlipBPTotal, to.TxCount))
    IN  SetIf(m5, n # 0, "poolSlipAverage",
              slip(from.TradeSlipBPTotal + to.TradeSlipBPTotal, n))

\* poolsAsset: err is "panic" when the call panics
poolsAsset(asset, height, assetDepth, runeDepth, status, stakeAddrs, stakes, unstakes, from, to, fault) ==
    LET args == <<asset, height, assetDepth, runeDepth, status, stakeAddrs, stakes, unstakes,
                  from, to>>
        m0 == [k \in {"height", "asset", "assetDepth", "assetStakedTotal", "buyAssetCount",
                      "buyFeesTotal", "poolDepth", "poolFeesTotal", "poolUnits", "runeDepth",
                      "runeStakedTotal", "sellAssetCount", "sellFeesTotal", "stakeTxCount",
                      "stakersCount", "stakingTxCount", "status", "swappingTxCount",
                      "withdrawTxCount"} |->
                 CASE k = "height" -> height
                   [] k = "asset" -> asset
                   [] k = "assetDepth" -> assetDepth
                   [] k = "assetStakedTotal" -> stakes.AssetE8Total
                   [] k = "buyAssetCount" -> from.TxCount
                   [] k = "buyFeesTotal" -> from.LiqFeeE8Total
                   [] k = "poolDepth" -> 2 * runeDepth
                   [] k = "poolFeesTotal" -> from.LiqFeeE8Total + to.LiqFeeE8Total
                   [] k = "poolUnits" -> stakes.StakeUnitsTotal - unstakes.StakeUnitsTotal
                   [] k = "runeDepth" -> runeDepth
                   [] k = "runeStakedTotal" -> stakes.RuneE8Total - unstakes.RuneE8Total
                   [] k = "sellAssetCount" -> to.TxCount
                   [] k = "sellFeesTotal" -> to.LiqFeeE8Total
                   [] k = "stakeTxCount" -> stakes.TxCount
                   [] k = "stakersCount" -> Cardinality(stakeAddrs)
                   [] k = "stakingTxCount" -> stakes.TxCount + unstakes.TxCount
                   [] k = "status" -> status
                   [] k = "swappingTxCount" -> from.TxCount + to.TxCount
                   [] k = "withdrawTxCount" -> unstakes.TxCount]
        m1 == IF assetDepth # 0
              THEN Set(m0, PriceEntries(assetDepth, runeDepth, stakes, unstakes, from, to))
              ELSE m0
        stakedA == stakes.AssetE8Total - unstakes.AssetE8Total
        stakedR == stakes.RuneE8Total - unstakes.RuneE8Total
        assetROI == IF stakedA # 0 THEN NewRat(assetDepth - stakedA, stakedA) ELSE NilRat
        runeROI == IF stakedR # 0 THEN NewRat(runeDepth - stakedR, stakedR) ELSE NilRat
        m2 == SetIf(m1, stakedA # 0, "assetROI", assetROI)
        m3 == SetIf(m2, stakedR # 0, "runeROI", runeROI)
        m4 == SetIf(m3, HasROI(assetROI, runeROI) /\ ~AddPanics(assetROI, runeROI), "poolROI",
                    IF AddPanics(assetROI, runeROI) THEN NilRat
                    ELSE RatMul(RatAdd(assetROI, runeROI), NewRat(1, 2)))
    IN  IF fault # "none" THEN ApiRet("poolsAsset", args, fault, <<>>, <<>>)
        ELSE IF HasROI(assetROI, runeROI) /\ AddPanics(assetROI, runeROI)
        THEN ApiRet("poolsAsset", args, "panic", <<>>, <<>>)
        ELSE ApiRet("poolsAsset", args, "nil", <<>>, Set(m4, SwapEntries(from, to)))

\* serveV1PoolsAsset or serveV1PoolsDetail calls poolsAsset for a pool with
\* any depths and statistics
ApiPoolsAsset ==
    /\ apiCall = NoApiCall
    /\ \E height \in {-1, 1}, assetDepth \in 0..MaxDepth, runeDepth \in 0..MaxDepth,
          status \in {"", "Enabled"}, stakeAddrs \in SUBSET {"a1"},
          stakes \in StakeStats, unstakes \in StakeStats, from \in SwapStats, to \in SwapStats,
          fault \in PoolsAssetFaults :
         /\ fault # "none" => (height = 1 /\ from.TxCount = 0 /\ to.TxCount = 0)
         /\ apiCall' = poolsAsset("P1", height, assetDepth, runeDepth, status, stakeAddrs,
                                  stakes, unstakes, from, to, fault)
    /\ UNCHANGED <<followVars, tsVars, cacheVars, set_node_keys_events, storeVars, mdVars>>

NextPoolsAsset ==
    \/ ApiPoolsAsset
    \/ ApiRespond

SpecPoolsAsset == InitApi /\ [][NextPoolsAsset]_vars

(***************************************************************************)
(* api: heightParam. A parameter value is the sequence of its characters   *)
(***************************************************************************)
\* greatest number of characters in a value of the height parameter
MaxParamLen == 2

DigitChars == <<"0", "1", "2", "3">>
ParamChars == {DigitChars[i] : i \in 1..Len(DigitChars)} \cup {"-", "+", "a", "."}
ParamStrings == SeqsUpTo(ParamChars, MaxParamLen)
\* r.URL.Query()["height"]: no value, one value, or two
HeightParams ==
    {<<>>} \cup {<<s>> : s \in ParamStrings}
           \cup {<<s, t>> : s \in {<<"1">>, <<"a">>}, t \in {<<"2">>, <<>>}}

IsDigit(c) == \E i \in 1..Len(DigitChars) : DigitChars[i] = c
DigitVal(c) == (CHOOSE i \in 1..Len(DigitChars) : DigitChars[i] = c) - 1

\* the unsigned decimal value of a sequence of digits, most significant first
RECURSIVE ParseUint(_)
ParseUint(s) ==
    IF s = <<>> THEN 0
    ELSE 10 * ParseUint(SubSeq(s, 1, Len(s) - 1)) + DigitVal(s[Len(s)])

\* strconv.ParseInt(s, 10, 64): an optional sign, then one or more digits. The
\* values of at most MaxParamLen digits are all in the range of int64
ParseInt(s) ==
    LET neg == s # <<>> /\ s[1] = "-"
        digits == IF s # <<>> /\ s[1] \in {"+", "-"} THEN Tail(s) ELSE s
    IN  IF s = <<>> \/ digits = <<>> \/ \E i \in 1..Len(digits) : ~IsDigit(digits[i])
        THEN [n |-> 0, err |-> "ErrSyntax"]
        ELSE [n |-> IF neg THEN -ParseUint(digits) ELSE ParseUint(digits), err |-> "nil"]

\* mutant: any positive height is in bounds
OutOfBounds_NoLast(height, lastHeight) == height <= 0

\* if height <= 0 || lastHeight < height
OutOfBounds(height, lastHeight) == height <= 0 \/ lastHeight < height

\* heightParam: val is the height returned
heightParam(heightParams) ==
    LET lastHeight == LastBlock.height
        parsed == ParseInt(heightParams[1])
        result(height, err) == ApiRet("heightParam", <<heightParams>>, err, <<>>, <<height>>)
    IN  IF Len(heightParams) = 0 THEN result(lastHeight, "nil")
        ELSE IF 1 < Len(heightParams) THEN result(-1, "too many height parameters")
        ELSE IF parsed.err # "nil" THEN result(-1, "couldn't parse block parameter as int")
        ELSE IF parsed.n = -1 THEN result(lastHeight, "nil")
        ELSE IF OutOfBounds(parsed.n, lastHeight)
        THEN result(-1, "block parameter is out of bounds")
        ELSE result(parsed.n, "nil")

\* serveV1PoolsDetail reads the height parameter of a request
ApiHeightParam ==
    /\ ppc = "ready"
    /\ apiCall = NoApiCall
    /\ \E heightParams \in HeightParams : apiCall' = heightParam(heightParams)
    /\ UNCHANGED <<followVars, tsVars, cacheVars, set_node_keys_events, storeVars, mdVars>>

NextHeight ==
    \/ Restart
    \/ Startup
    \/ ApiCommitBlock
    \/ ApiHeightParam
    \/ ApiRespond

SpecHeight == InitApi /\ [][NextHeight]_vars

(***************************************************************************)
(* Properties                                                              *)
(***************************************************************************)
\* C1: the blocks Follow sends on out have consecutive heights starting at
\* the offset argument: the k-th block sent has height offset + k - 1.
C1_SentConsecutive ==
    \A k \in 1..Len(sent) : sent[k] = callOffset + k - 1

\* C2: in every state of the pipeline the heights that have a block_log row
\* are 1..n for some n >= 0.
C2_CommittedHeightsArePrefix ==
    \E n \in 0..MaxHeight : DOMAIN block_log = 1..n

\* C3: a block_log row, once written, is never changed or removed, and a
\* CommitBlock for a height that already has a row (no row affected) returns nil.
C3_CommitOncePerHeight ==
    [][/\ \A h \in DOMAIN block_log :
             h \in DOMAIN block_log' /\ block_log'[h] = block_log[h]
       /\ (ret'.op = "CommitBlock" /\ ret'.fault = "none" /\ ret'.n = 0)
             => ret'.err = "nil"]_vars

\* a CommitBlock for a committed height, with another timestamp, hash and
\* aggregate state than the row has, returned nil
C3_Witness ==
    /\ ret.op = "CommitBlock" /\ ret.err = "nil" /\ ret.n = 0
    /\ ret.height \in DOMAIN block_log
    /\ block_log[ret.height].timestamp # lastBlockTrack.Timestamp
    /\ block_log[ret.height].hash # lastBlockTrack.Hash
    /\ block_log[ret.height].agg_state.ok
    /\ Decode(block_log[ret.height].agg_state).asset # lastBlockTrack.AssetE8DepthPerPool

\* C4: whenever LastBlock() reports a height h > 0, block_log has a row for
\* h; and a CommitBlock whose insert (or its RowsAffected) fails returns a
\* non-nil error and leaves lastBlockTrack as it was.
C4_LastBlockIsCommitted ==
    /\ [](LastBlock.height > 0 => LastBlock.height \in DOMAIN block_log)
    /\ [][(ret'.op = "CommitBlock" /\ ret'.fault # "none")
             => (ret'.err # "nil" /\ lastBlockTrack' = lastBlockTrack)]_vars

\* a CommitBlock of another height failed while LastBlock() reports h > 0
C4_Witness ==
    /\ ret.op = "CommitBlock" /\ ret.fault = "exec" /\ ret.err # "nil"
    /\ LastBlock.height > 0
    /\ ret.height # LastBlock.height
    /\ ret.height \notin DOMAIN block_log

\* C5: whenever LastBlock() returns h, every event of the heights 1..h that
\* Demux.Block hands to the Listener has its row in the event tables.
C5_EventsBeforeCommit ==
    LastBlock.height > 0 =>
        \A g \in 1..LastBlock.height : BlockRows(feed[g], BlockTime(g)) \subseteq events

\* the recorder of a process that was never interrupted, after it committed
\* the blocks of the heights H in ascending order
RECURSIVE Uninterrupted(_)
Uninterrupted(H) ==
    IF H = {} THEN EmptyRecorder
    ELSE LET h == Max(H)
             r == Block(Uninterrupted(H \ {h}), feed[h], BlockTime(h)).rec
         IN  ApplyFeeQ(ApplyOutboundQ(r, h, BlockTime(h)), h, BlockTime(h))

\* the recorder such a process serializes when it commits h
UninterruptedAt(H, h) ==
    Block(Uninterrupted({g \in H : g < h}), feed[h], BlockTime(h)).rec

\* C6: when every process ended right after a CommitBlock that returned nil,
\* the aggregate state committed for each height is the one a process that
\* was never interrupted commits for it on the same blocks.
C6_RestartKeepsAggregates ==
    cleanStops =>
        \A h \in DOMAIN block_log :
            block_log[h].agg_state.ok =>
                LET d == Decode(block_log[h].agg_state)
                    u == UninterruptedAt(DOMAIN block_log, h)
                IN  /\ d.asset = u.assetE8DepthPerPool
                    /\ d.rune = u.runeE8DepthPerPool

\* C7: after a Setup that returned nil on a block_log with rows, what it
\* returned is the row of the greatest height, the recorder's depths are that
\* row's decoded agg_state, LastBlock() is that row, and the driver starts
\* Follow at that height + 1.
C7_SetupRestoresLastRow ==
    (ret.op = "Setup" /\ ret.err = "nil" /\ DOMAIN block_log # {}) =>
        LET h   == Max(DOMAIN block_log)
            row == block_log[h]
            d   == Decode(row.agg_state)
        IN  /\ ret.height = h
            /\ ret.timestamp = row.timestamp
            /\ ret.hash = row.hash
            /\ ~d.err
            /\ recorder.assetE8DepthPerPool = d.asset
            /\ recorder.runeE8DepthPerPool = d.rune
            /\ LastBlock = [height |-> h, timestamp |-> row.timestamp, hash |-> row.hash]
            /\ ppc = "recv" => callOffset = h + 1

\* Setup ran on two rows with depths in the last one, and Follow was started
C7_Witness ==
    /\ ret.op = "Setup" /\ ret.err = "nil"
    /\ Cardinality(DOMAIN block_log) >= 2
    /\ recorder.assetE8DepthPerPool # EmptyMap
    /\ block_log[1].agg_state # block_log[2].agg_state
    /\ ppc = "recv" /\ fpc = "status"

\* C8: after a Setup on an empty block_log that the database answered, Setup
\* returned height 0 and nil, the recorder's depths are empty and LastBlock()
\* returns height 0.
C8_SetupOnEmptyLog ==
    (ret.op = "Setup" /\ ret.fault = "none" /\ DOMAIN block_log = {}) =>
        /\ ret.err = "nil"
        /\ ret.height = 0
        /\ recorder.assetE8DepthPerPool = EmptyMap
        /\ recorder.runeE8DepthPerPool = EmptyMap
        /\ LastBlock.height = 0

\* Setup ran on an empty block_log, in a process that is not the first
C8_Witness ==
    /\ ret.op = "Setup" /\ ret.fault = "none" /\ DOMAIN block_log = {}
    /\ restarts > 0
    /\ lastBlockTrack = ZeroTrack

\* the last row of block_log does not decode
LastRowMalformed(log) ==
    DOMAIN log # {} /\ Decode(log[Max(DOMAIN log)].agg_state).err

\* C9: a Setup that cannot read the last row or cannot decode its agg_state
\* returns a non-nil error and changes neither lastBlockTrack nor the recorder.
C9_SetupFailureChangesNothing ==
    [][(ret'.op = "Setup" /\ (ret'.fault # "none" \/ LastRowMalformed(block_log)))
          => /\ ret'.err # "nil"
             /\ lastBlockTrack' = lastBlockTrack
             /\ recorder' = recorder]_vars

\* Setup failed on a row whose agg_state does not decode
C9_Witness ==
    /\ ret.op = "Setup" /\ ret.fault = "none" /\ ret.err = "malformed"
    /\ LastRowMalformed(block_log)
    /\ lastBlockTrack = Nil
    /\ recorder = EmptyRecorder

\* C10: Follow never returns a nil error, on any return path.
C10_ErrNeverNil ==
    fpc = "done" => fret.err # "nil"

\* C11: a Follow that returned from a select that received on quit returned
\* ErrQuit, and a Follow that returned ErrNoData returned it because the
\* status it polled has no block at the offset.
C11_QuitReturnsErrQuit ==
    fpc = "done" =>
        /\ fret.line \in {130, 138} => fret.err = "ErrQuit"
        /\ fret.err = "ErrNoData" => (fret.line = 116 /\ latest < offset)

\* C12: the height Follow returns is the offset argument plus the number of
\* blocks it sent on out during the call.
C12_HeightIsOffsetPlusSent ==
    fpc = "done" => fret.height = callOffset + Len(sent)

\* C13: no height is received from out twice, within a call or over calls
\* that each start at the height the previous one returned.
C13_NoHeightTwice ==
    \A i, j \in 1..Len(delivered) : i # j => delivered[i] # delivered[j]

\* blocks were delivered by two calls, the second started at the height the
\* first returned
C13_Witness ==
    /\ calls = 2
    /\ Len(sent) >= 1
    /\ Len(delivered) > Len(sent)

\* C14: Follow returns ErrNoData only when its last RPC call was a status
\* poll that reported a latest height below the offset, and block metas are
\* never requested while the latest height is below the offset (offset 1 on
\* an empty chain returns ErrNoData with height 1 and nothing requested or sent).
C14_NoDataOnlyAfterPoll ==
    /\ (fpc = "done" /\ fret.err = "ErrNoData") =>
            (rpcs = << <<"Status">> >> /\ latest < offset)
    /\ fpc = "fetch" => offset <= latest
    /\ (fpc = "done" /\ callOffset = 1 /\ latest = 0 /\ fret.line = 116) =>
            (fret = [height |-> 1, err |-> "ErrNoData", line |-> 116] /\ sent = <<>>)

\* a list of metas that is not in strictly descending order of height
C15_NotDescending(metas) == \E i \in 1..(Len(metas) - 1) : metas[i] <= metas[i + 1]
\* a list of metas with a height outside [off, off + 19]
C15_OutOfRange(off, metas) ==
    \E i \in 1..Len(metas) : metas[i] < off \/ metas[i] > off + 19

\* C15: fetchBlocks fails on every answer that is not strictly descending,
\* leaves [offset, offset+19] or has a BlockResults of another height than
\* requested; a batch that reaches the submit loop has neither defect; and a
\* Follow whose fetchBlocks failed returns the error with the offset the
\* batch started at, having sent nothing of it.
C15_InvalidBatchRejected ==
    [][/\ fpc = "fetch" =>
            \A info \in InfoResponses(offset), fault \in FetchFaults :
                (/\ ~info.err
                 /\ \/ C15_NotDescending(info.metas)
                    \/ C15_OutOfRange(offset, info.metas)
                    \/ fault.kind = "mismatch" /\ fault.at \in 1..Len(info.metas))
                => (/\ fetchBlocks(offset, info, fault).err # "nil"
                    /\ fetchBlocks(offset, info, fault).batch = <<>>)
       /\ (fpc' = "send" /\ fpc = "fetch") =>
            (/\ ~C15_NotDescending(Reverse(batch'))
             /\ ~C15_OutOfRange(offset, batch'))
       /\ (fpc' = "done" /\ fret'.line = 122) =>
            (/\ fret'.err # "nil"
             /\ fret'.height = offset
             /\ sent' = sent
             /\ delivered' = delivered)]_vars

\* a second batch failed validation after the first one was sent
C15_Witness ==
    /\ fpc = "done"
    /\ fret.err \in {"order", "range", "mismatch"}
    /\ sent # <<>>
    /\ fret.height = sent[Len(sent)] + 1

\* C16: a Follow that returned the error of an RPC call made no request after
\* the failed one and sent nothing in that step, and after Follow returned
\* nothing is requested or sent until it is called again.
C16_NoRetry ==
    [][/\ (fpc # "done" /\ fpc' = "done"
           /\ fret'.err \in {"status", "info", "enqueue", "trigger"}) =>
            (/\ sent' = sent
             /\ delivered' = delivered
             /\ fret'.err = "status" => rpcs' = << <<"Status">> >>
             /\ fret'.err = "info" => rpcs' = << <<"BlockchainInfo", offset, offset + 19>> >>
             /\ fret'.err = "enqueue" => rpcs'[Len(rpcs')][1] = "BlockResults"
             /\ fret'.err = "trigger" =>
                    (/\ rpcs'[Len(rpcs')][1] = "Trigger"
                     /\ \A i \in 1..(Len(rpcs') - 1) : rpcs'[i][1] # "Trigger"))
       /\ (fpc = "done" /\ calls' = calls) =>
            (/\ fpc' = "done"
             /\ fret' = fret
             /\ rpcs' = rpcs
             /\ sent' = sent
             /\ delivered' = delivered)]_vars

\* the enqueue of a BlockResults failed after an earlier batch was sent
C16_Witness ==
    /\ fpc = "done"
    /\ fret.err = "enqueue"
    /\ rpcs[Len(rpcs)][1] = "BlockResults"
    /\ sent # <<>>

\* C17: every BlockchainInfo request of fetchBlocks covers exactly
\* [offset, offset+19], and no batch trigger carries more than 20 enqueued
\* BlockResults calls.
C17_BatchCap ==
    [][rpcs' # rpcs =>
        \A i \in 1..Len(rpcs') :
            /\ rpcs'[i][1] = "BlockchainInfo" => rpcs'[i] = <<"BlockchainInfo", offset, offset + 19>>
            /\ rpcs'[i][1] = "Trigger" =>
                  (/\ rpcs'[i][2] <= 20
                   /\ Cardinality({j \in 1..Len(rpcs') : rpcs'[j][1] = "BlockResults"}) <= 20)]_vars

\* a batch of 20 blocks was triggered and accepted
C17_Witness ==
    /\ fpc = "send"
    /\ Len(batch) = 20
    /\ rpcs[Len(rpcs)] = <<"Trigger", 20>>

\* C18: once quit is signalled, a running Follow returns, even if nobody
\* receives from out.
C18_QuitTerminates ==
    (quit /\ fpc \notin {"idle", "done"}) ~> (fpc = "done")

\* Follow returned on quit with a block waiting that nobody received
C18_Witness ==
    /\ quit
    /\ fpc = "done"
    /\ fret.line = 138
    /\ sent = <<>>
    /\ batch # <<>>

\* C19: while quit is not signalled and no RPC call or validation fails, a
\* running Follow whose receiver keeps receiving eventually returns (with
\* ErrNoData): it does not go on forever.
C19_DrainsThenNoData ==
    (fpc \notin {"idle", "done"}) ~> (quit \/ fpc = "done")

\* the callback the claim names for each event type
C20_Names ==
    [type \in KnownTypes |->
        CASE type = "add" -> "OnAdd"           [] type = "fee" -> "OnFee"
          [] type = "message" -> "OnMessage"   [] type = "outbound" -> "OnOutbound"
          [] type = "pool" -> "OnPool"         [] type = "refund" -> "OnRefund"
          [] type = "reserve" -> "OnReserve"   [] type = "stake" -> "OnStake"
          [] type = "swap" -> "OnSwap"         [] type = "unstake" -> "OnUnstake"]

\* one callback per event of a known type that decodes, in event order
RECURSIVE C20_OfTx(_)
C20_OfTx(tx) ==
    IF tx = <<>> THEN <<>>
    ELSE LET e == Head(tx)
         IN  (IF e.type \in DOMAIN C20_Names /\ e.ok THEN << <<C20_Names[e.type], e>> >> ELSE <<>>)
             \o C20_OfTx(Tail(tx))

\* in transaction order
RECURSIVE C20_OfBlock(_)
C20_OfBlock(txs) ==
    IF txs = <<>> THEN <<>> ELSE C20_OfTx(Head(txs)) \o C20_OfBlock(Tail(txs))

\* C20: the callbacks Demux.Block makes for a block are exactly one per
\* event of a known type that decodes, the one named after the type, in
\* transaction order and within a transaction in event order.
C20_OneCallbackPerEvent ==
    ret.op = "Block" => callbacks = C20_OfBlock(feed[cur])

\* a block of two transactions was demuxed: callbacks of two types were
\* made and two events were skipped
C20_Witness ==
    /\ ret.op = "Block"
    /\ Len(feed[cur]) = 2
    /\ Len(feed[cur][1]) = 2 /\ Len(feed[cur][2]) = 2
    /\ Len(callbacks) = 2
    /\ callbacks[1][1] # callbacks[2][1]

\* the events of a block in block order
C21_Flat == [i \in 1..Len(Flatten(feed[cur], 1)) |-> Flatten(feed[cur], 1)[i][3]]
\* an event Demux.event fails on: unknown type, or attributes that do not decode
C21_Skipped(e) == e.type \notin KnownTypes \/ ~e.ok
\* the number of events among the first k that are not skipped
C21_Good(k) == Cardinality({i \in 1..k : ~C21_Skipped(C21_Flat[i])})

\* C21: an event of an unknown type or with attributes that do not decode
\* gets no callback and does not stop the block: every event of the block
\* that is not such an event, the later ones included, gets its callback,
\* and Demux.Block returns after the last event.
C21_SkippedEventsDoNotStopBlock ==
    ret.op = "Block" =>
        /\ Len(callbacks) = C21_Good(Len(C21_Flat))
        /\ \A i \in 1..Len(C21_Flat) :
              ~C21_Skipped(C21_Flat[i]) => callbacks[C21_Good(i)][2] = C21_Flat[i]
        /\ \A k \in 1..Len(callbacks) : ~C21_Skipped(callbacks[k][2])
        /\ ppc = "update"

\* a block whose first event has an unknown type and whose second does not
\* decode was demuxed, and the event after them got its callback
C21_Witness ==
    /\ ret.op = "Block"
    /\ Len(C21_Flat) = 3
    /\ C21_Flat[1].type \notin KnownTypes
    /\ C21_Flat[2].type \in KnownTypes /\ ~C21_Flat[2].ok
    /\ Len(callbacks) = 1
    /\ callbacks[1][2] = C21_Flat[3]

\* the update call that returned last, and the maps of the update call
\* before it on the same snapshotManager (empty maps when there was none)
LastUpdate == passed[Len(passed)]
PrevUpdate ==
    IF Len(passed) >= 2 /\ passed[Len(passed) - 1].proc = LastUpdate.proc
    THEN passed[Len(passed) - 1]
    ELSE Passed(LastUpdate.proc, 0, EmptyMap, EmptyMap, "nil")
\* the rows of the insert the last update built: <<height, pool>> -> values
EmittedRows == IF dbexecs = <<>> THEN EmptyMap ELSE dbexecs[1].rows
\* the entry of a map at a pool: whether there is one, and its value
Entry(m, p) == IF p \in DOMAIN m THEN <<TRUE, m[p]>> ELSE <<FALSE, 0>>

C22_Same(p) ==
    /\ Entry(PrevUpdate.asset, p) = Entry(LastUpdate.asset, p)
    /\ Entry(PrevUpdate.rune, p) = Entry(LastUpdate.rune, p)

\* C22: update emits no row for a pool whose asset entry and rune entry are
\* both as they were at the previous update, and exactly one row (height,
\* pool, current asset depth, current rune depth) for each pool where either
\* entry changed; when no pool changed it executes no insert and returns nil.
C22_RowsOnlyForChangedPools ==
    ret.op = "update" =>
        /\ \A k \in DOMAIN EmittedRows : k[1] = LastUpdate.height /\ ~C22_Same(k[2])
        /\ \A p \in Pools :
              ~C22_Same(p) =>
                  /\ <<LastUpdate.height, p>> \in DOMAIN EmittedRows
                  /\ EmittedRows[<<LastUpdate.height, p>>] =
                        [asset_e8 |-> Get(LastUpdate.asset, p),
                         rune_e8 |-> Get(LastUpdate.rune, p)]
        /\ (\A p \in Pools : C22_Same(p)) => (dbexecs = <<>> /\ ret.err = "nil")

\* a second update on the same snapshotManager found one pool as it was and
\* another one new: it emitted the row of the new pool only
C22_Witness ==
    /\ ret.op = "update"
    /\ PrevUpdate.height > 0
    /\ "P1" \in DOMAIN PrevUpdate.asset /\ C22_Same("P1")
    /\ ~C22_Same("P2")
    /\ DOMAIN EmittedRows = {<<LastUpdate.height, "P2">>}

\* the last update emitted a row for the pool
C23_RowFor(p) == <<LastUpdate.height, p>> \in DOMAIN EmittedRows

\* C23: a pool missing from the current depth maps is treated as depth 0:
\* update emits a row with the values 0 for it if and only if its asset or
\* rune value in the previous snapshot was not 0, so a pool recorded with
\* depth 0 that disappears gets no row.
C23_ZeroRowOnlyAfterNonZero ==
    ret.op = "update" =>
        \A p \in Pools :
            (p \notin DOMAIN LastUpdate.asset /\ p \notin DOMAIN LastUpdate.rune) =>
                /\ C23_RowFor(p) <=>
                      (Get(PrevUpdate.asset, p) # 0 \/ Get(PrevUpdate.rune, p) # 0)
                /\ C23_RowFor(p) =>
                      EmittedRows[<<LastUpdate.height, p>>] = [asset_e8 |-> 0, rune_e8 |-> 0]

\* the other direction of C23, which the code keeps: a pool that had a value
\* other than 0 and is missing now gets a row with the values 0
ZeroRowAfterNonZero ==
    ret.op = "update" =>
        \A p \in Pools :
            (/\ p \notin DOMAIN LastUpdate.asset /\ p \notin DOMAIN LastUpdate.rune
             /\ (Get(PrevUpdate.asset, p) # 0 \/ Get(PrevUpdate.rune, p) # 0)) =>
                /\ C23_RowFor(p)
                /\ EmittedRows[<<LastUpdate.height, p>>] = [asset_e8 |-> 0, rune_e8 |-> 0]

\* the depths of a pool in effect at a height: the values of the row of the
\* pool with the greatest height <= h, 0 when there is none
EffectiveDepth(table, p, h) ==
    LET hs == {k[1] : k \in {x \in DOMAIN table : x[2] = p /\ x[1] <= h}}
    IN  IF hs = {} THEN [asset_e8 |-> 0, rune_e8 |-> 0] ELSE table[<<Max(hs), p>>]

\* every update call so far was made on one snapshotManager, returned nil,
\* and was made at a height above the one before
C24_OneIncreasingRun ==
    /\ \A i \in 1..Len(passed) : passed[i].err = "nil" /\ passed[i].proc = passed[1].proc
    /\ \A i \in 1..(Len(passed) - 1) : passed[i].height < passed[i + 1].height

\* C24: after update calls at increasing heights that all returned nil, for
\* every pool and every height update was called at, the row of the pool
\* with the greatest height <= that height carries the asset and rune depths
\* passed to update at that height (0 when the pool was absent).
C24_EffectiveDepthIsPassedDepth ==
    C24_OneIncreasingRun =>
        \A i \in 1..Len(passed), p \in Pools :
            EffectiveDepth(aggregate_states, p, passed[i].height) =
                [asset_e8 |-> Get(passed[i].asset, p), rune_e8 |-> Get(passed[i].rune, p)]

\* three updates at increasing heights: a pool came, stayed as it was (its
\* depth at the second height is that of the row of the first), and went
C24_Witness ==
    /\ C24_OneIncreasingRun
    /\ Len(passed) = 3
    /\ Get(passed[1].asset, "P1") = 1
    /\ Entry(passed[2].asset, "P1") = Entry(passed[1].asset, "P1")
    /\ Entry(passed[2].rune, "P1") = Entry(passed[1].rune, "P1")
    /\ "P1" \notin DOMAIN passed[3].asset
    /\ <<passed[2].height, "P1">> \notin DOMAIN aggregate_states
    /\ <<passed[3].height, "P1">> \in DOMAIN aggregate_states

\* the number of rows the last update emitted for its height
C25_Emitted == Cardinality(DOMAIN EmittedRows)

\* C25: if the database reports a number of inserted rows that differs from
\* the number of rows update emitted for the height, update returns an
\* error, for the insert into aggregate_states and for the insert into
\* aggregate_id_states alike.
C25_RowCountMismatchIsError ==
    ret.op = "update" =>
        \A i \in 1..Len(dbexecs) :
            (dbexecs[i].n >= 0 /\ dbexecs[i].n # C25_Emitted) => ret.err # "nil"

\* a new process gave the id of a pool of the process before it to another
\* pool: the first insert wrote every row, the second one met a row of
\* that id at the height, and update returned the error of the second count
C25_Witness ==
    /\ ret.op = "update"
    /\ Len(dbexecs) = 2
    /\ dbexecs[1].table = "aggregate_states" /\ dbexecs[1].n = C25_Emitted
    /\ dbexecs[2].table = "aggregate_id_states"
    /\ dbexecs[2].n >= 0 /\ dbexecs[2].n < C25_Emitted
    /\ ret.err = "count2"

\* the update calls so far are a run of n calls at increasing heights that
\* all returned nil, followed by a replay of that run from its (m+1)-th
\* height on: call by call the same height and the same depth maps, made
\* by the same process or by a new one, with a database client that works
C26_ReplayOf(n, m) ==
    /\ \A i \in 1..n : passed[i].err = "nil"
    /\ \A i \in 1..(n - 1) : passed[i].height < passed[i + 1].height
    /\ Len(passed) - n <= n - m
    /\ \A j \in 1..(Len(passed) - n) :
          /\ passed[n + j].height = passed[m + j].height
          /\ passed[n + j].asset = passed[m + j].asset
          /\ passed[n + j].rune = passed[m + j].rune
    /\ \A j \in 1..(Len(passed) - n - 1) : passed[n + j].err = "nil"

C26_Replays ==
    /\ ret.op = "update"
    /\ ret.fault = "none"
    /\ \E n \in 1..(Len(passed) - 1) : \E m \in 0..(n - 1) : C26_ReplayOf(n, m)

\* C26: running update again for a height already done, with the depths of
\* the same block feed, returns nil and leaves aggregate_states as it was:
\* no row is added and none is changed.
C26_ReplayChangesNothing ==
    C26_Replays =>
        /\ ret.err = "nil"
        /\ \A i \in 1..Len(dbexecs) : dbexecs[i].n = 0

\* a reader's LastBlock() call returns: lastBlockTrack holds a track
C27_Readable == lastBlockTrack # Nil

\* C27: the heights successive LastBlock() calls return never decrease, over
\* every Setup and CommitBlock call the pipeline makes: no step takes the
\* height LastBlock() returns below the one it returned before the step.
C27_LastBlockNeverDecreases ==
    [][(C27_Readable /\ C27_Readable') => LastBlock'.height >= LastBlock.height]_vars

\* a process that Setup started at height 1 has committed height 2
C27_Witness ==
    /\ restarts = 1
    /\ ret.op = "CommitBlock" /\ ret.err = "nil"
    /\ LastBlock.height = 2
    /\ 1 \in DOMAIN block_log

\* the memory model agrees with the values: the track lastBlockTrack
\* points to holds what CommitBlock or Setup stored
HeapAgrees == trackPtr # 0 => Deref(heap, trackPtr) = lastBlockTrack

\* what the reader got is what one stored track held when it was stored
C28_OfOneCommit(g) ==
    /\ g.ptr \in DOMAIN stored
    /\ g.timestamp = stored[g.ptr].Timestamp
    /\ g.call = "LastBlock" =>
          (g.height = stored[g.ptr].Height /\ g.seen = <<stored[g.ptr].Hash>>)
    /\ g.call = "AssetAndRuneDepths" =>
          g.seen = <<stored[g.ptr].AssetE8DepthPerPool, stored[g.ptr].RuneE8DepthPerPool>>

\* C28: a value published through lastBlockTrack is never modified: every
\* track ever stored still holds the height, timestamp, hash and depth maps
\* it held when it was stored; what a reader got from LastBlock or from
\* AssetAndRuneDepths, also while CommitBlock was running, is the data of
\* one single stored track, and the slice and the maps it got still hold
\* what they held, whatever was recorded, committed or written to the
\* caller's hash slice since.
C28_PublishedNeverModified ==
    /\ \A a \in DOMAIN stored : Deref(heap, a) = stored[a]
    /\ reader.got # NoRead =>
          /\ C28_OfOneCommit(reader.got)
          /\ \A i \in DOMAIN reader.got.refs :
                heap[reader.got.refs[i]] = reader.got.seen[i]

\* a reader holds the hash of a commit that is no longer the last one: an
\* event was recorded after it, another block was committed, and the
\* caller's slice holds other bytes than the hash the reader got
C28_Witness ==
    /\ reader.got.call = "LastBlock"
    /\ reader.got.ptr # trackPtr
    /\ reader.got.height > 0
    /\ trackPtr # 0
    /\ lastBlockTrack.AssetE8DepthPerPool # stored[reader.got.ptr].AssetE8DepthPerPool
    /\ heap[CallerBuf] # reader.got.seen[1]

\* C29: every failure inside CommitBlock makes it return an error, a failed
\* serialization of the aggregate state included: no block_log row holds a
\* missing or partial agg_state, and a CommitBlock call in which the
\* database client failed did not return nil.
C29_NoSilentFailure ==
    /\ \A h \in DOMAIN block_log : block_log[h].agg_state.ok
    /\ (ret.op = "CommitBlock" /\ ret.fault # "none") => ret.err # "nil"

\* C30: two independent runs of the pipeline over the same block stream
\* from height 1 write byte-identical agg_state values to block_log for
\* every height.
C30_SameAggStateBytes ==
    firstRun.done =>
        \A h \in DOMAIN firstRun.log \cap DOMAIN block_log :
            block_log[h].agg_state = firstRun.log[h].agg_state

\* what the two runs do agree on: the aggregate state their agg_state
\* values decode to
SameAggStateValues ==
    firstRun.done =>
        \A h \in DOMAIN firstRun.log \cap DOMAIN block_log :
            (block_log[h].agg_state.ok /\ firstRun.log[h].agg_state.ok) =>
                Decode(block_log[h].agg_state) = Decode(firstRun.log[h].agg_state)

\* the depth of a pool before the first updatePoolCache call: what
\* initPoolCache loaded, zero for a pool it did not load
C31_Initial(p) ==
    IF p \in DOMAIN poolLog.init THEN poolLog.init[p]
    ELSE [assetDepth |-> 0, runeDepth |-> 0]

\* the sum of the changes the first k returned calls applied to pool p
RECURSIVE C31_Sum(_, _)
C31_Sum(k, p) ==
    IF k = 0 THEN [assetDepth |-> 0, runeDepth |-> 0]
    ELSE LET c == poolLog.calls[k]
             s == C31_Sum(k - 1, p)
         IN  IF c.pool = p
             THEN [assetDepth |-> s.assetDepth + c.assetChanges,
                   runeDepth |-> s.runeDepth + c.runeChanges]
             ELSE s

C31_Expected(k, p) ==
    [assetDepth |-> C31_Initial(p).assetDepth + C31_Sum(k, p).assetDepth,
     runeDepth |-> C31_Initial(p).runeDepth + C31_Sum(k, p).runeDepth]

\* C31: concurrent updatePoolCache calls are serialized by the lock. Whenever
\* no call holds the lock, each cached pool's assetDepth and runeDepth are
\* the initial values plus the sums of the changes of all calls that
\* returned (no lost update) and the cached pools are the initial ones and
\* those of the calls that took the lock; each call returned the depths as
\* they were right after its own change; a call for an unknown pool started
\* from zero.
C31_NoLostUpdate ==
    /\ mu = 0 =>
         /\ DOMAIN pools = DOMAIN poolLog.init
                             \cup {poolLog.calls[k].pool : k \in 1..Len(poolLog.calls)}
         /\ \A p \in DOMAIN pools : pools[p] = C31_Expected(Len(poolLog.calls), p)
    /\ \A k \in 1..Len(poolLog.calls) :
         LET c == poolLog.calls[k]
         IN  /\ [assetDepth |-> c.assetDepth, runeDepth |-> c.runeDepth]
                  = C31_Expected(k, c.pool)
             /\ (c.pool \notin DOMAIN poolLog.init
                 /\ \A j \in 1..(k - 1) : poolLog.calls[j].pool # c.pool)
                  => (c.assetDepth = c.assetChanges /\ c.runeDepth = c.runeChanges)

\* both goroutines have made two calls each, all on one pool that
\* initPoolCache did not load, the calls of the two alternating, and the
\* cache holds the sum of the four changes
C31_Witness ==
    /\ mu = 0
    /\ Len(poolLog.calls) = 4
    /\ \A k \in 1..4 : poolLog.calls[k].pool = "P2"
    /\ \A k \in 1..3 : poolLog.calls[k].w # poolLog.calls[k + 1].w
    /\ poolLog.init # EmptyMap
    /\ pools["P2"] = C31_Expected(4, "P2")
    /\ pools["P2"].assetDepth = 3

C32_Lookups == {"Pools", "PoolStatus", "StakeAddrs", "Mimir", "StatusPerNode"}

\* C32: Pools, PoolStatus, StakeAddrs, Mimir and StatusPerNode return
\* errBeyondLast without querying the database when the requested moment is
\* after the timestamp of the last committed block, and when the moment is
\* zero every query they make takes the last committed block's timestamp.
C32_BeyondLastDenied ==
    [][(apiCall = NoApiCall /\ apiCall' # NoApiCall /\ apiCall'.fn \in C32_Lookups) =>
          LET call == apiCall'
              moment == call.args[Len(call.args)]
          IN  /\ (~IsZero(moment) /\ moment > LastBlock.timestamp) =>
                    (call.err = "errBeyondLast" /\ call.queries = <<>>)
              /\ IsZero(moment) =>
                    /\ call.err # "errBeyondLast"
                    /\ call.queries # <<>>
                    /\ \A i \in 1..Len(call.queries) :
                         LET a == call.queries[i].args
                         IN  a[Len(a)] = UnixNano(LastBlock.timestamp)]_vars

\* StatusPerNode was asked for a moment after the block last committed, in a
\* process that has committed a block
C32_Witness ==
    /\ apiCall.fn = "StatusPerNode"
    /\ ret.op = "CommitBlock" /\ ret.err = "nil"
    /\ LastBlock.timestamp = 1
    /\ apiCall.args = <<2>>
    /\ apiCall.err = "errBeyondLast"
    /\ apiCall.queries = <<>>

\* PoolStatus was asked for the zero moment after a block was committed, and
\* its query took the timestamp of that block
C32_WitnessZero ==
    /\ apiCall.fn = "PoolStatus"
    /\ ret.op = "CommitBlock" /\ ret.err = "nil"
    /\ LastBlock.timestamp = 2
    /\ apiCall.args = <<"P1", ZeroTime>>
    /\ apiCall.queries = <<Query("pool_events", <<"P1", 2>>)>>

\* the rows of set_node_keys_events that NodesSecpAndEd(t) reads
C33_Read == Select(set_node_keys_events, apiCall.args[1])

\* the address of the last row read whose column col holds key
C33_LastAddr(col, key) ==
    LET k == Max({i \in 1..Len(C33_Read) : C33_Read[i][col] = key})
    IN  C33_Read[k].node_addr

\* C33: NodesSecpAndEd returns the public keys mapped to their addresses:
\* for every set_node_keys_events row with block_timestamp <= t,
\* secp256k1Addrs maps its secp256k1 key and ed25519Addrs maps its ed25519
\* key to the address of the last row read with that key.
C33_KeysMappedToAddrs ==
    (apiCall.fn = "NodesSecpAndEd" /\ apiCall.err = "nil") =>
        \A i \in 1..Len(C33_Read) :
            LET row == C33_Read[i]
                v == apiCall.val
            IN  /\ row.secp256k1 \in DOMAIN v.secp256k1Addrs
                /\ v.secp256k1Addrs[row.secp256k1] = C33_LastAddr("secp256k1", row.secp256k1)
                /\ row.ed25519 \in DOMAIN v.ed25519Addrs
                /\ v.ed25519Addrs[row.ed25519] = C33_LastAddr("ed25519", row.ed25519)

\* the half that holds: secp256k1Addrs is as stated
SecpMappedToAddrs ==
    (apiCall.fn = "NodesSecpAndEd" /\ apiCall.err = "nil") =>
        \A i \in 1..Len(C33_Read) :
            LET row == C33_Read[i]
                v == apiCall.val
            IN  /\ row.secp256k1 \in DOMAIN v.secp256k1Addrs
                /\ v.secp256k1Addrs[row.secp256k1] = C33_LastAddr("secp256k1", row.secp256k1)
                /\ v.ed25519Addrs = v.secp256k1Addrs

\* the stored events GetMaxID(chain) is about
C34_Of(records, chain) == {r \in records : chain = "" \/ r.chain = chain}

C35_SnapshotEqualsRow ==
    (ret.op = "CommitBlock" /\ ret.err = "nil") =>
        /\ ret.height \in DOMAIN block_log
        /\ ~Decode(block_log[ret.height].agg_state).err
        /\ Decode(block_log[ret.height].agg_state).asset = AssetAndRuneDepths.assetE8PerPool
        /\ Decode(block_log[ret.height].agg_state).rune = AssetAndRuneDepths.runeE8PerPool

\* what does hold: the snapshot equals the row when the call inserted the
\* row and the row's agg_state is one that Encode wrote
SnapshotEqualsInsertedRow ==
    (ret.op = "CommitBlock" /\ ret.err = "nil" /\ ret.n = 1
     /\ block_log[ret.height].agg_state.ok) =>
        /\ Decode(block_log[ret.height].agg_state).asset = AssetAndRuneDepths.assetE8PerPool
        /\ Decode(block_log[ret.height].agg_state).rune = AssetAndRuneDepths.runeE8PerPool

C36_InsertErrs == {"saving", "results", "count", "saving2", "results2", "count2"}

\* C36: update replaces its snapshots with copies of the maps it is passed
\* before it executes the inserts, so the snapshots advance on every call,
\* failed or not: the snapshots are the maps of the last call, also after the
\* caller has changed its maps since; and a call with the same maps as the
\* call before it, which failed on an insert or on a row count, emits no row
\* and returns nil.
C36_SnapshotsAdvanceOnError ==
    Len(passed) > 0 =>
        LET n == Len(passed)
        IN  /\ depthSnapshot.assetE8DepthSnapshot = passed[n].asset
            /\ depthSnapshot.runeE8DepthSnapshot = passed[n].rune
            /\ (n > 1 /\ passed[n - 1].err \in C36_InsertErrs
                /\ passed[n].asset = passed[n - 1].asset
                /\ passed[n].rune = passed[n - 1].rune)
                 => (dbexecs = <<>> /\ passed[n].err = "nil")

\* a call inserted its row and failed on the row count of the second
\* insert (the id table had the row of an earlier process), the caller called
\* again with the same maps, which emitted nothing, and has changed its maps
\* since
C36_Witness ==
    /\ Len(passed) = 2
    /\ passed[1].err = "count2"
    /\ passed[1].asset # EmptyMap
    /\ passed[2].asset = passed[1].asset /\ passed[2].rune = passed[1].rune
    /\ passed[2].err = "nil"
    /\ dbexecs = <<>>
    /\ heap[CallerAsset] # passed[2].asset
    /\ depthSnapshot.assetE8DepthSnapshot = passed[2].asset

C38_Call == apiCall.fn = "poolsAsset" /\ apiCall.err \notin PoolsAssetFaults \ {"none"}
C38_StakedAsset == apiCall.args[7].AssetE8Total - apiCall.args[8].AssetE8Total
C38_StakedRune == apiCall.args[7].RuneE8Total - apiCall.args[8].RuneE8Total

\* C38: poolsAsset returns a result map without panicking for every
\* combination of stake and unstake totals and depths; when only one of
\* assetROI and runeROI exists (exactly one net staked total is zero) it still
\* returns, and poolROI, when present, is computed only from the ROI values
\* that exist in the map.
C38_NeverPanics ==
    C38_Call =>
        /\ apiCall.err = "nil"
        /\ "assetROI" \in DOMAIN apiCall.val <=> C38_StakedAsset # 0
        /\ "runeROI" \in DOMAIN apiCall.val <=> C38_StakedRune # 0
        /\ "poolROI" \in DOMAIN apiCall.val =>
               \E used \in (SUBSET ({"assetROI", "runeROI"} \cap DOMAIN apiCall.val)) \ {{}} :
                   \/ /\ used = {"assetROI", "runeROI"}
                      /\ apiCall.val["poolROI"] =
                             RatMul(RatAdd(apiCall.val["assetROI"], apiCall.val["runeROI"]),
                                    NewRat(1, 2))
                   \/ /\ Cardinality(used) = 1
                      /\ \E k \in used : apiCall.val["poolROI"] \in
                             {apiCall.val[k], RatMul(apiCall.val[k], NewRat(1, 2))}

\* poolsAsset returns normally whenever both or neither ROI value exists
PoolsAssetReturnsOutsideOneROI ==
    (C38_Call /\ ((C38_StakedAsset = 0) <=> (C38_StakedRune = 0))) =>
        /\ apiCall.err = "nil"
        /\ "poolROI" \in DOMAIN apiCall.val <=> C38_StakedAsset # 0

\* the decimal digits of n >= 0, without leading zeros
RECURSIVE C39_Decimal(_)
C39_Decimal(n) ==
    IF n < 10 THEN <<DigitChars[n + 1]>>
    ELSE C39_Decimal(n \div 10) \o <<DigitChars[(n % 10) + 1]>>

\* the integers a value of MaxParamLen characters over these digits can write
C39_Ints == {n \in -33..33 : (Abs(n) % 10) < Len(DigitChars)}

\* s writes the integer n: an optional sign, leading zeros, the digits of |n|
C39_Denotes(s, n) ==
    \E sign \in {<<>>, <<"+">>, <<"-">>}, zeros \in 0..MaxParamLen :
        /\ n < 0 => sign = <<"-">>
        /\ n > 0 => sign # <<"-">>
        /\ s = sign \o [i \in 1..zeros |-> "0"] \o C39_Decimal(Abs(n))

\* C39: heightParam returns the last committed height when the height
\* parameter is absent or equals -1, returns the given height when
\* 1 <= height <= last committed height, and returns an error for every other
\* value, for more than one height parameter and for a value that is not an
\* integer.
C39_HeightParam ==
    [][(apiCall = NoApiCall /\ apiCall' # NoApiCall /\ apiCall'.fn = "heightParam") =>
          LET p == apiCall'.args[1]
              last == LastBlock.height
              ok == apiCall'.err = "nil"
              got == apiCall'.val[1]
          IN  /\ Len(p) = 0 => (ok /\ got = last)
              /\ Len(p) > 1 => ~ok
              /\ Len(p) = 1 =>
                    /\ (\A n \in C39_Ints : ~C39_Denotes(p[1], n)) => ~ok
                    /\ \A n \in C39_Ints : C39_Denotes(p[1], n) =>
                          /\ n = -1 => (ok /\ got = last)
                          /\ (1 <= n /\ n <= last) => (ok /\ got = n)
                          /\ (n # -1 /\ ~(1 <= n /\ n <= last)) => ~ok]_vars

\* after two blocks were committed, the request height=+2 got height 2
C39_Witness ==
    /\ apiCall.fn = "heightParam"
    /\ apiCall.args = << << <<"+", "2">> >> >>
    /\ apiCall.err = "nil"
    /\ apiCall.val = <<2>>
    /\ LastBlock.height = 2
    /\ ret.op = "CommitBlock" /\ ret.err = "nil"

\* the request height=-1 got the height of the block last committed
C39_WitnessLast ==
    /\ apiCall.fn = "heightParam"
    /\ apiCall.args = << << <<"-", "1">> >> >>
    /\ apiCall.err = "nil"
    /\ apiCall.val = <<1>>
    /\ LastBlock.height = 1

====
